---------------------------- MODULE Spec2Model ----------------------------
(***************************************************************************)
(* ldk-server-gui: the asynchronous operation dispatcher (task.rs) and the *)
(* operation registry / single-flight drain built on it (state.rs,         *)
(* app.rs).                                                                *)
(*                                                                         *)
(* Rust's Option<T> is modelled as a sequence of length 0 or 1, a          *)
(* Result<T, String> as <<"Ok", v>> or <<"Err", e>>.  A response payload   *)
(* is opaque to the registry; it is modelled by the identity of the call   *)
(* that produced it, so that "whose response is cached" can be observed.   *)
(***************************************************************************)
EXTENDS Integers, Sequences, FiniteSets, TLC

\* ------------------------------------------------------------------ bounds
\* Calls spawned over a run that starts at construction.
MaxCalls == 4
\* Calls spawned after start-up over a run that follows a session.
MaxSessionCalls == 2
\* Clients constructed over a run (connect may be repeated for ever).
MaxConn == 1
\* Panels of the UI (a button, with its form and dialog) the user operates.
MaxPanels == 1
\* Calls spawned after start-up over a run with two operations in flight.
MaxPairCalls == 3
\* Calls spawned after start-up over a run in which the user closes channels.
MaxCloseCalls == 4
\* Successful connects over a run in which the user reconnects.
MaxReconnects == 2

\* ------------------------------------------------------------------ Option / Result
None == << >>
Some(x) == << x >>
is_some(o) == o # << >>
is_none(o) == o = << >>
Ok(v) == << "Ok", v >>
Err(e) == << "Err", e >>

\* ------------------------------------------------------------------ registry
\* The operation keys, in the order of the AsyncTasks fields.
Keys ==
    << "node_info", "balances", "channels", "payments", "onchain_receive",
       "onchain_send", "bolt11_receive", "bolt11_send", "bolt12_receive",
       "bolt12_send", "open_channel", "close_channel", "force_close_channel",
       "splice_in", "splice_out", "update_channel_config", "connect_peer" >>

KeySet == { Keys[i] : i \in 1..Len(Keys) }

\* impl Default for AsyncTasks: every slot None.
AsyncTasksDefault == [ k \in KeySet |-> None ]

\* An any_pending that was not extended when the channels slot was added.
any_pending_no_channels(tasks) ==
    \/ is_some(tasks["node_info"])
    \/ is_some(tasks["balances"])
    \/ is_some(tasks["payments"])
    \/ is_some(tasks["onchain_receive"])
    \/ is_some(tasks["onchain_send"])
    \/ is_some(tasks["bolt11_receive"])
    \/ is_some(tasks["bolt11_send"])
    \/ is_some(tasks["bolt12_receive"])
    \/ is_some(tasks["bolt12_send"])
    \/ is_some(tasks["open_channel"])
    \/ is_some(tasks["close_channel"])
    \/ is_some(tasks["force_close_channel"])
    \/ is_some(tasks["splice_in"])
    \/ is_some(tasks["splice_out"])
    \/ is_some(tasks["update_channel_config"])
    \/ is_some(tasks["connect_peer"])

\* AsyncTasks::any_pending
any_pending(tasks) ==
    \/ is_some(tasks["node_info"])
    \/ is_some(tasks["balances"])
    \/ is_some(tasks["channels"])
    \/ is_some(tasks["payments"])
    \/ is_some(tasks["onchain_receive"])
    \/ is_some(tasks["onchain_send"])
    \/ is_some(tasks["bolt11_receive"])
    \/ is_some(tasks["bolt11_send"])
    \/ is_some(tasks["bolt12_receive"])
    \/ is_some(tasks["bolt12_send"])
    \/ is_some(tasks["open_channel"])
    \/ is_some(tasks["close_channel"])
    \/ is_some(tasks["force_close_channel"])
    \/ is_some(tasks["splice_in"])
    \/ is_some(tasks["splice_out"])
    \/ is_some(tasks["update_channel_config"])
    \/ is_some(tasks["connect_peer"])

\* ------------------------------------------------------------------ status
\* StatusMessage::success / StatusMessage::error (the timestamp is dead code).
\* A text is a tuple: a literal, or a format! prefix followed by its argument.
StatusSuccess(text) == [ text |-> text, is_error |-> FALSE ]
StatusError(text) == [ text |-> text, is_error |-> TRUE ]

\* ------------------------------------------------------------------ forms
\* str::trim on the strings the forms hold: "" , " " (blank), other.
Trim(s) == IF s = " " THEN "" ELSE s

\* str::parse::<u64>().is_ok() on a trimmed string.
ParsesU64(s) == s \in { "7" }

FormNames ==
    { "open_channel", "bolt11_send", "bolt12_receive", "bolt12_send",
      "onchain_send", "splice_in", "splice_out", "update_channel_config",
      "close_channel", "connect_peer" }

\* Forms::default(): every String empty.  Only the fields a trigger's
\* validation reads are kept; the others only travel into the request.
FormDefault(f) ==
    CASE f = "open_channel" ->
           [ node_pubkey |-> "", address |-> "", channel_amount_sats |-> "" ]
      [] f = "bolt11_send" -> [ invoice |-> "" ]
      [] f = "bolt12_receive" -> [ description |-> "" ]
      [] f = "bolt12_send" -> [ offer |-> "" ]
      [] f = "onchain_send" -> [ address |-> "" ]
      [] f \in { "splice_in", "splice_out" } ->
           [ user_channel_id |-> "", counterparty_node_id |-> "",
             splice_amount_sats |-> "" ]
      [] f \in { "update_channel_config", "close_channel" } ->
           [ user_channel_id |-> "", counterparty_node_id |-> "" ]
      [] f = "connect_peer" -> [ node_pubkey |-> "", address |-> "" ]

FormsDefault == [ f \in FormNames |-> FormDefault(f) ]

\* What the user may type into a form: contents that reach every branch of
\* the trigger's validation.
FormInputs(f) ==
    CASE f = "open_channel" ->
           { [ node_pubkey |-> "02ab", address |-> "h:9735", channel_amount_sats |-> "7" ],
             [ node_pubkey |-> "02ab", address |-> "h:9735", channel_amount_sats |-> "abc" ],
             [ node_pubkey |-> " ", address |-> "h:9735", channel_amount_sats |-> "7" ] }
      [] f = "bolt11_send" -> { [ invoice |-> "lnbc" ], [ invoice |-> " " ] }
      [] f = "bolt12_receive" -> { [ description |-> "tea" ], [ description |-> " " ] }
      [] f = "bolt12_send" -> { [ offer |-> "lno" ], [ offer |-> " " ] }
      [] f = "onchain_send" -> { [ address |-> "bc1q" ], [ address |-> " " ] }
      [] f \in { "splice_in", "splice_out" } ->
           { [ user_channel_id |-> "42", counterparty_node_id |-> "02ab",
               splice_amount_sats |-> "7" ],
             [ user_channel_id |-> "42", counterparty_node_id |-> "02ab",
               splice_amount_sats |-> "abc" ],
             [ user_channel_id |-> "42", counterparty_node_id |-> " ",
               splice_amount_sats |-> "7" ] }
      [] f \in { "update_channel_config", "close_channel" } ->
           { [ user_channel_id |-> "42", counterparty_node_id |-> "02ab" ],
             [ user_channel_id |-> " ", counterparty_node_id |-> "02ab" ] }
      [] f = "connect_peer" ->
           { [ node_pubkey |-> "02ab", address |-> "h:9735" ],
             [ node_pubkey |-> "02ab", address |-> " " ] }

\* The form each trigger reads (force_close_channel reads the close form).
FormOf(k) ==
    CASE k = "force_close_channel" -> "close_channel"
      [] k \in FormNames -> k
      [] OTHER -> ""

\* The validation of each trigger, in the order of its checks: None when the
\* request can be sent, else the text of the error it reports.
Validate(k, forms) ==
    LET form == forms[FormOf(k)] IN
    CASE k = "onchain_send" ->
           IF Trim(form.address) = "" THEN Some(<< "Address is required" >>) ELSE None
      [] k = "bolt11_send" ->
           IF Trim(form.invoice) = "" THEN Some(<< "Invoice is required" >>) ELSE None
      [] k = "bolt12_receive" ->
           IF Trim(form.description) = ""
           THEN Some(<< "Description is required" >>) ELSE None
      [] k = "bolt12_send" ->
           IF Trim(form.offer) = "" THEN Some(<< "Offer is required" >>) ELSE None
      [] k = "open_channel" ->
           IF ~ParsesU64(Trim(form.channel_amount_sats))
           THEN Some(<< "Invalid channel amount" >>)
           ELSE IF Trim(form.node_pubkey) = "" \/ Trim(form.address) = ""
           THEN Some(<< "Node pubkey and address are required" >>)
           ELSE None
      [] k \in { "close_channel", "force_close_channel", "update_channel_config" } ->
           IF Trim(form.user_channel_id) = "" \/ Trim(form.counterparty_node_id) = ""
           THEN Some(<< "Channel ID and counterparty node ID are required" >>)
           ELSE None
      [] k \in { "splice_in", "splice_out" } ->
           IF ~ParsesU64(Trim(form.splice_amount_sats))
           THEN Some(<< "Invalid splice amount" >>)
           ELSE IF Trim(form.user_channel_id) = "" \/ Trim(form.counterparty_node_id) = ""
           THEN Some(<< "Channel ID and counterparty node ID are required" >>)
           ELSE None
      [] k = "connect_peer" ->
           IF Trim(form.node_pubkey) = "" \/ Trim(form.address) = ""
           THEN Some(<< "Node pubkey and address are required" >>)
           ELSE None
      [] OTHER -> None


\* ------------------------------------------------------------------ state
VARIABLES
    state,      \* LdkServerApp.state : AppState
    rt,         \* the async substrate: every call spawned so far, by call id
    substrate,  \* "native" (cfg(not(target_arch = "wasm32"))) or "wasm"
    signal,     \* any_pending() as computed by the last update()
    repaint,    \* a redraw tick is scheduled with the egui context
    conns,      \* clients constructed so far (names the next client)
    focus,      \* the panels with a form the user has operated so far
    settings,   \* AppState: forms.chain_source, chain_source, config_file_path
    disk        \* the chain source sections of the config file on disk

vars == << state, rt, substrate, signal, repaint, conns, focus, settings, disk >>

\* impl Default for AppState (the fields the registry reads or writes).
AppStateDefault ==
    [ connection_status |-> << "Disconnected" >>,
      client |-> None,
      node_info |-> None,
      balances |-> None,
      channels |-> None,
      payments |-> None,
      payments_page_token |-> None,
      onchain_address |-> None,
      generated_invoice |-> None,
      generated_offer |-> None,
      last_payment_id |-> None,
      last_txid |-> None,
      last_channel_id |-> None,
      tasks |-> AsyncTasksDefault,
      forms |-> FormsDefault,
      status_message |-> None,
      show_open_channel_dialog |-> FALSE,
      show_close_channel_dialog |-> FALSE,
      show_splice_in_dialog |-> FALSE,
      show_splice_out_dialog |-> FALSE,
      show_update_config_dialog |-> FALSE,
      show_connect_peer_dialog |-> FALSE ]

\* LdkServerApp::new: on native a config file found at start-up leaves a
\* success status; on wasm the state is the default.
NewStates(sub) ==
    { AppStateDefault } \cup
    IF sub = "native"
    THEN { [ AppStateDefault EXCEPT !.status_message =
               Some(StatusSuccess(<< "Config loaded from ldk-server-config.toml" >>)) ] }
    ELSE { }

\* ------------------------------------------------------------------ chain source
\* The strings a field of the config holds.
Strings == { "", "a" }

\* enum ChainSourceConfig, a variant with its fields in declaration order.
ChainSourceConfigs ==
    { << "None" >> }
    \cup { << "Bitcoind", a, u, p >> : a \in Strings, u \in Strings, p \in Strings }
    \cup { << "Electrum", url >> : url \in Strings }
    \cup { << "Esplora", url >> : url \in Strings }

\* impl Default for ChainSourceForm: source_type None, every String empty.
ChainSourceFormDefault ==
    [ source_type |-> "None", btc_rpc_address |-> "", btc_rpc_user |-> "",
      btc_rpc_password |-> "", server_url |-> "" ]

\* A from_config that does not copy the RPC password.
from_config_no_password(config) ==
    CASE config[1] = "None" -> ChainSourceFormDefault
      [] config[1] = "Bitcoind" ->
           [ source_type |-> "Bitcoind", btc_rpc_address |-> config[2],
             btc_rpc_user |-> config[3], btc_rpc_password |-> "",
             server_url |-> "" ]
      [] config[1] = "Electrum" ->
           [ ChainSourceFormDefault EXCEPT !.source_type = "Electrum",
                                           !.server_url = config[2] ]
      [] config[1] = "Esplora" ->
           [ ChainSourceFormDefault EXCEPT !.source_type = "Esplora",
                                           !.server_url = config[2] ]

\* ChainSourceForm::from_config.
from_config(config) ==
    CASE config[1] = "None" -> ChainSourceFormDefault
      [] config[1] = "Bitcoind" ->
           [ source_type |-> "Bitcoind", btc_rpc_address |-> config[2],
             btc_rpc_user |-> config[3], btc_rpc_password |-> config[4],
             server_url |-> "" ]
      [] config[1] = "Electrum" ->
           [ ChainSourceFormDefault EXCEPT !.source_type = "Electrum",
                                           !.server_url = config[2] ]
      [] config[1] = "Esplora" ->
           [ ChainSourceFormDefault EXCEPT !.source_type = "Esplora",
                                           !.server_url = config[2] ]

\* ChainSourceForm::to_config.
to_config(form) ==
    CASE form.source_type = "None" -> << "None" >>
      [] form.source_type = "Bitcoind" ->
           << "Bitcoind", form.btc_rpc_address, form.btc_rpc_user, form.btc_rpc_password >>
      [] form.source_type = "Electrum" -> << "Electrum", form.server_url >>
      [] form.source_type = "Esplora" -> << "Esplora", form.server_url >>

\* The config file: its [bitcoind], [electrum] and [esplora] tables, each
\* present or not (the other tables are not touched by the settings).
ConfigFiles ==
    [ bitcoind : { None } \cup { Some(<< a, u, p >>) : a \in Strings, u \in Strings, p \in { "a" } },
      electrum : { None } \cup { Some(url) : url \in Strings },
      esplora : { None } \cup { Some(url) : url \in { "a" } } ]

\* TryFrom<TomlConfig> for GuiConfig: the chain source of a parsed file.
chain_source_of(toml) ==
    IF is_some(toml.bitcoind)
    THEN << "Bitcoind", toml.bitcoind[1][1], toml.bitcoind[1][2], toml.bitcoind[1][3] >>
    ELSE IF is_some(toml.electrum) THEN << "Electrum", toml.electrum[1] >>
    ELSE IF is_some(toml.esplora) THEN << "Esplora", toml.esplora[1] >>
    ELSE << "None" >>

\* save_chain_source: the three tables are removed and the one of the
\* chain source is inserted.
save_chain_source(chain_source) ==
    LET removed == [ bitcoind |-> None, electrum |-> None, esplora |-> None ] IN
    CASE chain_source[1] = "None" -> removed
      [] chain_source[1] = "Bitcoind" ->
           [ removed EXCEPT !.bitcoind =
               Some(<< chain_source[2], chain_source[3], chain_source[4] >>) ]
      [] chain_source[1] = "Electrum" -> [ removed EXCEPT !.electrum = Some(chain_source[2]) ]
      [] chain_source[1] = "Esplora" -> [ removed EXCEPT !.esplora = Some(chain_source[2]) ]

\* The chain source fields of AppState::default().
SettingsDefault ==
    [ chain_source_form |-> ChainSourceFormDefault,
      chain_source |-> << "None" >>,
      config_file_path |-> None ]

\* The chain source fields once a config was loaded: the form is filled
\* from the chain source, and the path is recorded by the Load Config
\* button only (LdkServerApp::new does not record it).
Loaded(toml, path) ==
    [ chain_source_form |-> from_config(chain_source_of(toml)),
      chain_source |-> chain_source_of(toml),
      config_file_path |-> path ]

\* ------------------------------------------------------------------ dispatcher
\* A call is named <<key, n>>: the n-th call spawned for that key.
CallsOf(r, k) == { c \in DOMAIN r : c[1] = k }
NumCalls(r) == Cardinality(DOMAIN r)

\* spawn_with_runtime: a fresh mpsc channel, the task holding tx, the handle rx.
spawn_with_runtime(r, c, req) ==
    c :> [ worker |-> "running", rx |-> << >>, request |-> req ] @@ r

\* spawn_local: a fresh shared cell holding None, the task holding a clone.
spawn_local(r, c, req) ==
    c :> [ worker |-> "running", result |-> None, request |-> req ] @@ r

\* A task whose message is lost: the outcome is sent to nobody.
Publish_lost(r, c, res) == [ r EXCEPT ![c].worker = "done" ]

\* The spawned future runs to completion with outcome res and publishes it:
\* native: tx.send(res), then tx is dropped; wasm: *cell = Some(res).
Publish(r, c, res) ==
    IF substrate = "native"
    THEN [ r EXCEPT ![c].worker = "done", ![c].rx = Append(@, res) ]
    ELSE [ r EXCEPT ![c].worker = "done", ![c].result = Some(res) ]

\* A try_take that reports a sender dropped without a result as a failure.
try_take_native_disconnected(r, c) ==
    IF Len(r[c].rx) > 0
    THEN [ res |-> Some(Head(r[c].rx)), rt |-> [ r EXCEPT ![c].rx = Tail(@) ] ]
    ELSE IF r[c].worker = "lost"
    THEN [ res |-> Some(Err("task dropped")), rt |-> r ]
    ELSE [ res |-> None, rt |-> r ]

\* A try_take that waits on the channel: rx.recv() returns when the task has
\* sent its outcome, or the sender is gone.
try_take_native_recv(r, c) ==
    IF Len(r[c].rx) > 0
    THEN [ res |-> Some(Head(r[c].rx)), rt |-> [ r EXCEPT ![c].rx = Tail(@) ] ]
    ELSE IF r[c].worker = "running"
    THEN [ res |-> Some(Ok([ call |-> c, next_page_token |-> None ])),
           rt |-> [ r EXCEPT ![c].worker = "done" ] ]
    ELSE [ res |-> None, rt |-> r ]

\* A try_take that reads the head of the channel and leaves it queued.
try_take_native_peek(r, c) ==
    IF Len(r[c].rx) > 0
    THEN [ res |-> Some(Head(r[c].rx)), rt |-> r ]
    ELSE [ res |-> None, rt |-> r ]

\* ChannelTaskHandle::try_take (native): rx.try_recv(), Ok(result) => Some(result),
\* Err(Empty) or Err(Disconnected) => None.
try_take_native(r, c) ==
    IF Len(r[c].rx) > 0
    THEN [ res |-> Some(Head(r[c].rx)), rt |-> [ r EXCEPT ![c].rx = Tail(@) ] ]
    ELSE [ res |-> None, rt |-> r ]

\* A try_take that reads the cell without taking its content.
try_take_wasm_peek(r, c) ==
    [ res |-> r[c].result, rt |-> r ]

\* ChannelTaskHandle::try_take (wasm): self.result.borrow_mut().take().
try_take_wasm(r, c) ==
    [ res |-> r[c].result, rt |-> [ r EXCEPT ![c].result = None ] ]

try_take(r, c) ==
    IF substrate = "native" THEN try_take_native(r, c) ELSE try_take_wasm(r, c)

\* A spawn_task whose caller drops the handle instead of storing it.
spawn_task_dropped(w, k, req) ==
    LET c == << k, Cardinality(CallsOf(w.rt, k)) + 1 >> IN
    [ w EXCEPT !.rt = IF substrate = "native"
                      THEN spawn_with_runtime(w.rt, c, req)
                      ELSE spawn_local(w.rt, c, req) ]

\* LdkServerApp::spawn_task: the substrate's spawn; the handle is the call id.
\* A world w is the application state together with the substrate and the
\* repaint requests made so far in the running handler.
spawn_task(w, k, req) ==
    LET c == << k, Cardinality(CallsOf(w.rt, k)) + 1 >> IN
    [ w EXCEPT !.rt = IF substrate = "native"
                      THEN spawn_with_runtime(w.rt, c, req)
                      ELSE spawn_local(w.rt, c, req),
               !.state.tasks[k] = Some(c) ]

\* ------------------------------------------------------------------ triggers
\* A request that always asks for the first page.
RequestOf_first_page(s, k) ==
    [ client |-> s.client[1], page_token |-> None ]

\* What a trigger captures for its request besides the form: the client it
\* cloned and, for list_payments, the page token.
RequestOf(s, k) ==
    [ client |-> s.client[1],
      page_token |-> IF k = "payments" THEN s.payments_page_token ELSE None ]

\* A trigger that validates the form before it looks for the client.
Trigger_validate_before_client(w, k) ==
    IF is_some(w.state.tasks[k]) THEN w
    ELSE LET err == Validate(k, w.state.forms) IN
         IF is_some(err)
         THEN [ w EXCEPT !.state.status_message = Some(StatusError(err[1])) ]
         ELSE IF is_none(w.state.client) THEN w
         ELSE spawn_task(w, k, RequestOf(w.state, k))

\* A trigger that sends whatever the form holds.
Trigger_unvalidated(w, k) ==
    IF is_some(w.state.tasks[k]) THEN w
    ELSE IF is_none(w.state.client) THEN w
    ELSE spawn_task(w, k, RequestOf(w.state, k))

\* A trigger that validates the form before it looks at the slot.
Trigger_validate_first(w, k) ==
    IF is_none(w.state.client) THEN w
    ELSE LET err == Validate(k, w.state.forms) IN
         IF is_some(err)
         THEN [ w EXCEPT !.state.status_message = Some(StatusError(err[1])) ]
         ELSE IF is_some(w.state.tasks[k]) THEN w
         ELSE spawn_task(w, k, RequestOf(w.state, k))

\* A trigger without the single-flight guard.
Trigger_unguarded(w, k) ==
    IF is_none(w.state.client) THEN w
    ELSE LET err == Validate(k, w.state.forms) IN
         IF is_some(err)
         THEN [ w EXCEPT !.state.status_message = Some(StatusError(err[1])) ]
         ELSE spawn_task(w, k, RequestOf(w.state, k))

\* The common shape of the seventeen triggers: the single-flight guard, the
\* client check, the form validation, the spawn.
Trigger(w, k) ==
    IF is_some(w.state.tasks[k]) THEN w
    ELSE IF is_none(w.state.client) THEN w
    ELSE LET err == Validate(k, w.state.forms) IN
         IF is_some(err)
         THEN [ w EXCEPT !.state.status_message = Some(StatusError(err[1])) ]
         ELSE spawn_task(w, k, RequestOf(w.state, k))

fetch_node_info(w) == Trigger(w, "node_info")
fetch_balances(w) == Trigger(w, "balances")
\* A fetch_channels without the single-flight guard.
fetch_channels_unguarded(w) ==
    IF is_none(w.state.client) THEN w
    ELSE spawn_task(w, "channels", RequestOf(w.state, "channels"))

fetch_channels(w) == Trigger(w, "channels")
fetch_payments(w) == Trigger(w, "payments")
generate_onchain_address(w) == Trigger(w, "onchain_receive")
send_onchain(w) == Trigger(w, "onchain_send")
generate_bolt11_invoice(w) == Trigger(w, "bolt11_receive")
send_bolt11(w) == Trigger(w, "bolt11_send")
generate_bolt12_offer(w) == Trigger(w, "bolt12_receive")
send_bolt12(w) == Trigger(w, "bolt12_send")
open_channel(w) == Trigger(w, "open_channel")
close_channel(w) == Trigger(w, "close_channel")
force_close_channel(w) == Trigger(w, "force_close_channel")
splice_in(w) == Trigger(w, "splice_in")
splice_out(w) == Trigger(w, "splice_out")
update_channel_config(w) == Trigger(w, "update_channel_config")
connect_peer(w) == Trigger(w, "connect_peer")

\* The pub fn a key's button calls.
TriggerOf(w, k) ==
    CASE k = "node_info" -> fetch_node_info(w)
      [] k = "balances" -> fetch_balances(w)
      [] k = "channels" -> fetch_channels(w)
      [] k = "payments" -> fetch_payments(w)
      [] k = "onchain_receive" -> generate_onchain_address(w)
      [] k = "onchain_send" -> send_onchain(w)
      [] k = "bolt11_receive" -> generate_bolt11_invoice(w)
      [] k = "bolt11_send" -> send_bolt11(w)
      [] k = "bolt12_receive" -> generate_bolt12_offer(w)
      [] k = "bolt12_send" -> send_bolt12(w)
      [] k = "open_channel" -> open_channel(w)
      [] k = "close_channel" -> close_channel(w)
      [] k = "force_close_channel" -> force_close_channel(w)
      [] k = "splice_in" -> splice_in(w)
      [] k = "splice_out" -> splice_out(w)
      [] k = "update_channel_config" -> update_channel_config(w)
      [] k = "connect_peer" -> connect_peer(w)

\* ------------------------------------------------------------------ drain
\* Success handlers of which the one of splice_out omits the re-fetch.
Handler_no_refetch(w, k, v) ==
    CASE k = "node_info" -> [ w EXCEPT !.state.node_info = Some(v) ]
      [] k = "balances" -> [ w EXCEPT !.state.balances = Some(v) ]
      [] k = "channels" -> [ w EXCEPT !.state.channels = Some(v) ]
      [] k = "payments" ->
           [ w EXCEPT !.state.payments_page_token = v.next_page_token,
                      !.state.payments = Some(v) ]
      [] k = "onchain_receive" ->
           [ w EXCEPT !.state.onchain_address = Some(v.call),
                      !.state.status_message =
                          Some(StatusSuccess(<< "Address generated" >>)) ]
      [] k = "onchain_send" ->
           [ w EXCEPT !.state.last_txid = Some(v.call),
                      !.state.status_message =
                          Some(StatusSuccess(<< "Sent! TXID: ", v.call >>)),
                      !.state.forms["onchain_send"] = FormDefault("onchain_send") ]
      [] k = "bolt11_receive" ->
           [ w EXCEPT !.state.generated_invoice = Some(v.call),
                      !.state.status_message =
                          Some(StatusSuccess(<< "Invoice generated" >>)) ]
      [] k = "bolt11_send" ->
           [ w EXCEPT !.state.last_payment_id = Some(v.call),
                      !.state.status_message =
                          Some(StatusSuccess(<< "Payment sent! ID: ", v.call >>)),
                      !.state.forms["bolt11_send"] = FormDefault("bolt11_send") ]
      [] k = "bolt12_receive" ->
           [ w EXCEPT !.state.generated_offer = Some(v.call),
                      !.state.status_message =
                          Some(StatusSuccess(<< "Offer generated" >>)) ]
      [] k = "bolt12_send" ->
           [ w EXCEPT !.state.last_payment_id = Some(v.call),
                      !.state.status_message =
                          Some(StatusSuccess(<< "Payment sent! ID: ", v.call >>)),
                      !.state.forms["bolt12_send"] = FormDefault("bolt12_send") ]
      [] k = "open_channel" ->
           fetch_channels(
             [ w EXCEPT !.state.last_channel_id = Some(v.call),
                        !.state.status_message =
                            Some(StatusSuccess(<< "Channel opened! ID: ", v.call >>)),
                        !.state.forms["open_channel"] = FormDefault("open_channel"),
                        !.state.show_open_channel_dialog = FALSE ])
      [] k = "close_channel" ->
           fetch_channels(
             [ w EXCEPT !.state.status_message =
                            Some(StatusSuccess(<< "Channel close initiated" >>)),
                        !.state.forms["close_channel"] = FormDefault("close_channel"),
                        !.state.show_close_channel_dialog = FALSE ])
      [] k = "force_close_channel" ->
           fetch_channels(
             [ w EXCEPT !.state.status_message =
                            Some(StatusSuccess(<< "Force close initiated" >>)),
                        !.state.forms["close_channel"] = FormDefault("close_channel"),
                        !.state.show_close_channel_dialog = FALSE ])
      [] k = "splice_in" ->
           fetch_channels(
             [ w EXCEPT !.state.status_message =
                            Some(StatusSuccess(<< "Splice-in initiated" >>)),
                        !.state.forms["splice_in"] = FormDefault("splice_in"),
                        !.state.show_splice_in_dialog = FALSE ])
      [] k = "splice_out" ->
             [ w EXCEPT !.state.status_message =
                            Some(StatusSuccess(<< "Splice-out initiated to ", v.call >>)),
                        !.state.forms["splice_out"] = FormDefault("splice_out"),
                        !.state.show_splice_out_dialog = FALSE ]
      [] k = "update_channel_config" ->
           fetch_channels(
             [ w EXCEPT !.state.status_message =
                            Some(StatusSuccess(<< "Channel config updated" >>)),
                        !.state.forms["update_channel_config"] =
                            FormDefault("update_channel_config"),
                        !.state.show_update_config_dialog = FALSE ])
      [] k = "connect_peer" ->
           [ w EXCEPT !.state.status_message =
                          Some(StatusSuccess(<< "Peer connected successfully" >>)),
                      !.state.forms["connect_peer"] = FormDefault("connect_peer"),
                      !.state.show_connect_peer_dialog = FALSE ]

\* The success handler of each poll_task! invocation.  v is the response:
\* v.call stands for the field the handler stores (txid, payment_id,
\* user_channel_id, address, invoice, offer) or for the response as a whole.
Handler(w, k, v) ==
    CASE k = "node_info" -> [ w EXCEPT !.state.node_info = Some(v) ]
      [] k = "balances" -> [ w EXCEPT !.state.balances = Some(v) ]
      [] k = "channels" -> [ w EXCEPT !.state.channels = Some(v) ]
      [] k = "payments" ->
           [ w EXCEPT !.state.payments_page_token = v.next_page_token,
                      !.state.payments = Some(v) ]
      [] k = "onchain_receive" ->
           [ w EXCEPT !.state.onchain_address = Some(v.call),
                      !.state.status_message =
                          Some(StatusSuccess(<< "Address generated" >>)) ]
      [] k = "onchain_send" ->
           [ w EXCEPT !.state.last_txid = Some(v.call),
                      !.state.status_message =
                          Some(StatusSuccess(<< "Sent! TXID: ", v.call >>)),
                      !.state.forms["onchain_send"] = FormDefault("onchain_send") ]
      [] k = "bolt11_receive" ->
           [ w EXCEPT !.state.generated_invoice = Some(v.call),
                      !.state.status_message =
                          Some(StatusSuccess(<< "Invoice generated" >>)) ]
      [] k = "bolt11_send" ->
           [ w EXCEPT !.state.last_payment_id = Some(v.call),
                      !.state.status_message =
                          Some(StatusSuccess(<< "Payment sent! ID: ", v.call >>)),
                      !.state.forms["bolt11_send"] = FormDefault("bolt11_send") ]
      [] k = "bolt12_receive" ->
           [ w EXCEPT !.state.generated_offer = Some(v.call),
                      !.state.status_message =
                          Some(StatusSuccess(<< "Offer generated" >>)) ]
      [] k = "bolt12_send" ->
           [ w EXCEPT !.state.last_payment_id = Some(v.call),
                      !.state.status_message =
                          Some(StatusSuccess(<< "Payment sent! ID: ", v.call >>)),
                      !.state.forms["bolt12_send"] = FormDefault("bolt12_send") ]
      [] k = "open_channel" ->
           fetch_channels(
             [ w EXCEPT !.state.last_channel_id = Some(v.call),
                        !.state.status_message =
                            Some(StatusSuccess(<< "Channel opened! ID: ", v.call >>)),
                        !.state.forms["open_channel"] = FormDefault("open_channel"),
                        !.state.show_open_channel_dialog = FALSE ])
      [] k = "close_channel" ->
           fetch_channels(
             [ w EXCEPT !.state.status_message =
                            Some(StatusSuccess(<< "Channel close initiated" >>)),
                        !.state.forms["close_channel"] = FormDefault("close_channel"),
                        !.state.show_close_channel_dialog = FALSE ])
      [] k = "force_close_channel" ->
           fetch_channels(
             [ w EXCEPT !.state.status_message =
                            Some(StatusSuccess(<< "Force close initiated" >>)),
                        !.state.forms["close_channel"] = FormDefault("close_channel"),
                        !.state.show_close_channel_dialog = FALSE ])
      [] k = "splice_in" ->
           fetch_channels(
             [ w EXCEPT !.state.status_message =
                            Some(StatusSuccess(<< "Splice-in initiated" >>)),
                        !.state.forms["splice_in"] = FormDefault("splice_in"),
                        !.state.show_splice_in_dialog = FALSE ])
      [] k = "splice_out" ->
           fetch_channels(
             [ w EXCEPT !.state.status_message =
                            Some(StatusSuccess(<< "Splice-out initiated to ", v.call >>)),
                        !.state.forms["splice_out"] = FormDefault("splice_out"),
                        !.state.show_splice_out_dialog = FALSE ])
      [] k = "update_channel_config" ->
           fetch_channels(
             [ w EXCEPT !.state.status_message =
                            Some(StatusSuccess(<< "Channel config updated" >>)),
                        !.state.forms["update_channel_config"] =
                            FormDefault("update_channel_config"),
                        !.state.show_update_config_dialog = FALSE ])
      [] k = "connect_peer" ->
           [ w EXCEPT !.state.status_message =
                          Some(StatusSuccess(<< "Peer connected successfully" >>)),
                      !.state.forms["connect_peer"] = FormDefault("connect_peer"),
                      !.state.show_connect_peer_dialog = FALSE ]

\* An Err arm that reports a fixed text instead of the message.
ErrArm_generic(w, e) ==
    [ w EXCEPT !.state.status_message = Some(StatusError(<< "Request failed" >>)) ]

\* An Err arm that keeps a status that is already shown.
ErrArm_first_wins(w, e) ==
    IF is_some(w.state.status_message) THEN w
    ELSE [ w EXCEPT !.state.status_message = Some(StatusError(<< e >>)) ]

\* An Err arm that also forgets the last payment.
ErrArm_clears_payment(w, e) ==
    [ w EXCEPT !.state.status_message = Some(StatusError(<< e >>)),
               !.state.last_payment_id = None ]

\* An Err arm that leaves an error already shown in place.
ErrArm_keeps_error(w, e) ==
    IF is_some(w.state.status_message) /\ w.state.status_message[1].is_error THEN w
    ELSE [ w EXCEPT !.state.status_message = Some(StatusError(<< e >>)) ]

\* The Err arm of poll_task!.
ErrArm(w, e) == [ w EXCEPT !.state.status_message = Some(StatusError(<< e >>)) ]

\* A poll_task! that takes the handle out of the slot before polling it.
poll_task_drop_pending(w, k) ==
    IF is_some(w.state.tasks[k])
    THEN LET t == try_take(w.rt, w.state.tasks[k][1]) IN
         IF is_some(t.res)
         THEN LET res == t.res[1]
                  w1 == [ w EXCEPT !.rt = t.rt, !.state.tasks[k] = None ]
              IN IF res[1] = "Ok" THEN Handler(w1, k, res[2]) ELSE ErrArm(w1, res[2])
         ELSE [ w EXCEPT !.rt = t.rt, !.state.tasks[k] = None, !.repaint = TRUE ]
    ELSE w

\* A poll_task! that keeps the handle in the slot after it yielded.
poll_task_keeps_handle(w, k) ==
    IF is_some(w.state.tasks[k])
    THEN LET t == try_take(w.rt, w.state.tasks[k][1]) IN
         IF is_some(t.res)
         THEN LET res == t.res[1]
                  w1 == [ w EXCEPT !.rt = t.rt ]
              IN IF res[1] = "Ok" THEN Handler(w1, k, res[2]) ELSE ErrArm(w1, res[2])
         ELSE [ w EXCEPT !.rt = t.rt, !.repaint = TRUE ]
    ELSE w

\* A poll_task! that clears the slot in the Err arm only.
poll_task_ok_keeps_slot(w, k) ==
    IF is_some(w.state.tasks[k])
    THEN LET t == try_take(w.rt, w.state.tasks[k][1]) IN
         IF is_some(t.res)
         THEN LET res == t.res[1]
                  w1 == [ w EXCEPT !.rt = t.rt ]
              IN IF res[1] = "Ok"
                 THEN Handler(w1, k, res[2])
                 ELSE ErrArm([ w1 EXCEPT !.state.tasks[k] = None ], res[2])
         ELSE [ w EXCEPT !.rt = t.rt, !.repaint = TRUE ]
    ELSE w

\* A poll_task! that clears the slot in the Ok arm only.
poll_task_latched(w, k) ==
    IF is_some(w.state.tasks[k])
    THEN LET t == try_take(w.rt, w.state.tasks[k][1]) IN
         IF is_some(t.res)
         THEN LET res == t.res[1]
                  w1 == [ w EXCEPT !.rt = t.rt ]
              IN IF res[1] = "Ok"
                 THEN Handler([ w1 EXCEPT !.state.tasks[k] = None ], k, res[2])
                 ELSE ErrArm(w1, res[2])
         ELSE [ w EXCEPT !.rt = t.rt, !.repaint = TRUE ]
    ELSE w

\* A poll_task! whose Ok arm clears the status before the handler runs.
poll_task_ok_clears_status(w, k) ==
    IF is_some(w.state.tasks[k])
    THEN LET t == try_take(w.rt, w.state.tasks[k][1]) IN
         IF is_some(t.res)
         THEN LET res == t.res[1]
                  w1 == [ w EXCEPT !.rt = t.rt, !.state.tasks[k] = None ]
              IN IF res[1] = "Ok"
                 THEN Handler([ w1 EXCEPT !.state.status_message = None ], k, res[2])
                 ELSE ErrArm(w1, res[2])
         ELSE [ w EXCEPT !.rt = t.rt, !.repaint = TRUE ]
    ELSE w

\* One expansion of poll_task! for the slot of key k.
poll_task(w, k) ==
    IF is_some(w.state.tasks[k])
    THEN LET t == try_take(w.rt, w.state.tasks[k][1]) IN
         IF is_some(t.res)
         THEN LET res == t.res[1]
                  w1 == [ w EXCEPT !.rt = t.rt, !.state.tasks[k] = None ]
              IN IF res[1] = "Ok" THEN Handler(w1, k, res[2]) ELSE ErrArm(w1, res[2])
         ELSE [ w EXCEPT !.rt = t.rt, !.repaint = TRUE ]
    ELSE w

\* The expansions of poll_task! taken from the last to the first.
PollOrder_reversed ==
    << "connect_peer", "update_channel_config", "splice_out", "splice_in",
       "force_close_channel", "close_channel", "open_channel", "bolt12_send",
       "bolt12_receive", "bolt11_send", "bolt11_receive", "onchain_send",
       "onchain_receive", "payments", "channels", "balances", "node_info" >>

\* The order in which poll_tasks expands poll_task!.
PollOrder ==
    << "node_info", "balances", "channels", "payments", "onchain_receive",
       "onchain_send", "bolt11_receive", "bolt11_send", "bolt12_receive",
       "bolt12_send", "open_channel", "close_channel", "force_close_channel",
       "splice_in", "splice_out", "update_channel_config", "connect_peer" >>

\* A drain pass that returns at the first failure it observes.
RECURSIVE PollFrom_abort(_, _)
PollFrom_abort(w, i) ==
    IF i > Len(PollOrder) THEN w
    ELSE LET k == PollOrder[i]
             t == IF is_some(w.state.tasks[k])
                  THEN try_take(w.rt, w.state.tasks[k][1]).res ELSE None
         IN IF is_some(t) /\ t[1][1] = "Err"
            THEN poll_task(w, k)
            ELSE PollFrom_abort(poll_task(w, k), i + 1)

\* The expansions from the i-th on, each one starting from the world w1 that
\* the one before it left.
RECURSIVE PollFrom(_, _)
PollFrom(w, i) ==
    IF i > Len(PollOrder) THEN w
    ELSE PollFrom(CHOOSE w1 \in { poll_task(w0, PollOrder[i]) : w0 \in { w } } : TRUE,
                  i + 1)

\* LdkServerApp::poll_tasks
poll_tasks(w) == PollFrom(w, 1)

\* ------------------------------------------------------------------ connection
\* The connection settings and what the environment answers, at the moment
\* connect() runs: the three text fields, std::fs::read on the certificate,
\* LdkServerClient::new.
ConnectInputs ==
    { [ server_url |-> "localhost:3002", api_key |-> "k", tls_cert_path |-> "tls.crt",
        cert |-> Ok("pem"), new |-> Ok("client") ],
      [ server_url |-> "localhost:3002", api_key |-> "", tls_cert_path |-> "",
        cert |-> Ok("pem"), new |-> Ok("client") ],
      [ server_url |-> " ", api_key |-> "k", tls_cert_path |-> "tls.crt",
        cert |-> Ok("pem"), new |-> Ok("client") ],
      [ server_url |-> "localhost:3002", api_key |-> "k", tls_cert_path |-> "tls.crt",
        cert |-> Err("No such file"), new |-> Ok("client") ],
      [ server_url |-> "localhost:3002", api_key |-> "k", tls_cert_path |-> "tls.crt",
        cert |-> Ok("pem"), new |-> Err("invalid api key") ] }

\* A connect() that does not fetch the channel list.
connect_new_two_fetches(w, inp, g) ==
    IF inp.new[1] = "Ok"
    THEN fetch_balances(fetch_node_info(
           [ w EXCEPT !.state.client = Some(g),
                      !.state.connection_status = << "Connected" >>,
                      !.state.status_message = Some(StatusSuccess(<< "Connected" >>)) ]))
    ELSE [ w EXCEPT !.state.connection_status = << "Error", inp.new[2] >>,
                    !.state.status_message = Some(StatusError(<< inp.new[2] >>)) ]

\* The tail of connect(), common to both targets: match LdkServerClient::new.
\* g names the client constructed.
connect_new(w, inp, g) ==
    IF inp.new[1] = "Ok"
    THEN fetch_channels(fetch_balances(fetch_node_info(
           [ w EXCEPT !.state.client = Some(g),
                      !.state.connection_status = << "Connected" >>,
                      !.state.status_message = Some(StatusSuccess(<< "Connected" >>)) ])))
    ELSE [ w EXCEPT !.state.connection_status = << "Error", inp.new[2] >>,
                    !.state.status_message = Some(StatusError(<< inp.new[2] >>)) ]

\* LdkServerApp::connect
connect(w, inp, g) ==
    IF substrate = "native"
    THEN IF Trim(inp.server_url) = "" \/ inp.api_key = "" \/ Trim(inp.tls_cert_path) = ""
         THEN [ w EXCEPT !.state.status_message =
                  Some(StatusError(<< "Please fill in all connection fields" >>)) ]
         ELSE IF inp.cert[1] = "Err"
         THEN [ w EXCEPT !.state.status_message =
                  Some(StatusError(<< "Failed to read TLS cert: ", inp.cert[2] >>)) ]
         ELSE connect_new(w, inp, g)
    ELSE IF Trim(inp.server_url) = "" \/ inp.api_key = ""
         THEN [ w EXCEPT !.state.status_message =
                  Some(StatusError(<< "Please fill in server URL and API key" >>)) ]
         ELSE connect_new(w, inp, g)

\* A disconnect that keeps the client.
disconnect_keeps_client(w) ==
    [ w EXCEPT !.state.connection_status = << "Disconnected" >>,
               !.state.node_info = None,
               !.state.balances = None,
               !.state.channels = None,
               !.state.payments = None,
               !.state.status_message = Some(StatusSuccess(<< "Disconnected" >>)) ]

\* A disconnect that also drops the handles of the calls in flight.
disconnect_cancels(w) ==
    [ w EXCEPT !.state.client = None,
               !.state.connection_status = << "Disconnected" >>,
               !.state.node_info = None,
               !.state.balances = None,
               !.state.channels = None,
               !.state.payments = None,
               !.state.tasks = AsyncTasksDefault,
               !.state.status_message = Some(StatusSuccess(<< "Disconnected" >>)) ]

\* LdkServerApp::disconnect
disconnect(w) ==
    [ w EXCEPT !.state.client = None,
               !.state.connection_status = << "Disconnected" >>,
               !.state.node_info = None,
               !.state.balances = None,
               !.state.channels = None,
               !.state.payments = None,
               !.state.status_message = Some(StatusSuccess(<< "Disconnected" >>)) ]

\* ------------------------------------------------------------------ frame
\* An update that does not schedule the next poll.
update_unscheduled(w) ==
    LET w1 == poll_tasks(w) IN
    [ w |-> w1, signal |-> FALSE ]

\* App::update, up to the panels: the drain pass, then any_pending() decides
\* request_repaint_after.  Yields the world after the pass and the signal.
update(w) ==
    CHOOSE u \in { [ w |-> w1, signal |-> any_pending(w1.state.tasks) ] :
                     w1 \in { poll_tasks(w) } } : TRUE

\* ------------------------------------------------------------------ actions
\* The world a handler starts from: no repaint requested yet in this frame.
World == [ state |-> state, rt |-> rt, repaint |-> FALSE ]

\* Keys whose success handler re-fetches the channel list.
MutKeys ==
    { "open_channel", "close_channel", "force_close_channel",
      "splice_in", "splice_out", "update_channel_config" }

\* The three fetches connect() issues.
ConnectKeys == { "node_info", "balances", "channels" }

\* The run's bound on calls: the calls spawned, counting the re-fetch that
\* each outstanding channel mutation may still spawn, stay within limit.
WithinCalls(w, limit) ==
    NumCalls(w.rt) + Cardinality({ k \in MutKeys : is_some(w.state.tasks[k]) })
        <= limit

\* The dialog that holds the form of a key, if it has one.
DialogOf(k) ==
    CASE k = "open_channel" -> "show_open_channel_dialog"
      [] k \in { "close_channel", "force_close_channel" } -> "show_close_channel_dialog"
      [] k = "splice_in" -> "show_splice_in_dialog"
      [] k = "splice_out" -> "show_splice_out_dialog"
      [] k = "update_channel_config" -> "show_update_config_dialog"
      [] k = "connect_peer" -> "show_connect_peer_dialog"
      [] OTHER -> ""

\* The panel a key's button lives in: close and force close share one.
PanelOf(k) == IF k = "force_close_channel" THEN "close_channel" ELSE k

\* The run's bound on the user: the panels the user operates stay within
\* MaxPanels, the buttons in free apart.
Attend(k, free) ==
    /\ focus' = IF k \in free THEN focus ELSE focus \cup { PanelOf(k) }
    /\ Cardinality(focus') <= MaxPanels

\* The config file of the runs that do not open the settings: one that
\* names no chain source.
FoundFile == [ bitcoind |-> None, electrum |-> None, esplora |-> None ]

\* LdkServerApp::new over a disk holding one of files: where the start-up
\* search found the config, the chain source and its form come from it.
InitOver(files) ==
    /\ substrate \in { "native", "wasm" }
    /\ state \in NewStates(substrate)
    /\ rt = << >>
    /\ signal = FALSE
    /\ repaint = TRUE
    /\ conns = 0
    /\ focus = { }
    /\ disk \in files
    /\ settings = IF state = AppStateDefault THEN SettingsDefault
                  ELSE Loaded(disk, None)

Init == InitOver({ FoundFile })

\* A button of the UI calls the trigger of key k.  The click is an input
\* event: egui draws a further frame after the one that handled it.
UserTrigger(k, limit, free) ==
    LET w == TriggerOf(World, k) IN
    /\ WithinCalls(w, limit)
    /\ Attend(k, free)
    /\ state' = w.state
    /\ rt' = w.rt
    /\ repaint' = TRUE
    /\ UNCHANGED << substrate, signal, conns, settings, disk >>

\* The Connect button.
Connect(inp, limit, most) ==
    LET w == connect(World, inp, conns + 1) IN
    /\ conns < most
    /\ WithinCalls(w, limit)
    /\ state' = w.state
    /\ rt' = w.rt
    /\ conns' = IF w.state.client = Some(conns + 1) THEN conns + 1 ELSE conns
    /\ repaint' = TRUE
    /\ UNCHANGED << substrate, signal, focus, settings, disk >>

\* The Disconnect button.
Disconnect ==
    LET w == disconnect(World) IN
    /\ state' = w.state
    /\ repaint' = TRUE
    /\ UNCHANGED << rt, substrate, signal, conns, focus, settings, disk >>

\* The user edits form f (the text fields are bound to state.forms).
EditForm(f, v, free) ==
    /\ v # state.forms[f]
    /\ Attend(f, free)
    /\ state' = [ state EXCEPT !.forms[f] = v ]
    /\ repaint' = TRUE
    /\ UNCHANGED << rt, substrate, signal, conns, settings, disk >>

\* The user opens the dialog of key k.
OpenDialog(k) ==
    /\ ~state[DialogOf(k)]
    /\ Attend(k, { })
    /\ state' = [ state EXCEPT ![DialogOf(k)] = TRUE ]
    /\ repaint' = TRUE
    /\ UNCHANGED << rt, substrate, signal, conns, settings, disk >>

\* What the remote call of c may answer.
Response(c, tok) == [ call |-> c, next_page_token |-> tok ]
Messages == { "insufficient funds" }
Outcomes(c) ==
    { Ok(Response(c, tok)) :
        tok \in IF c[1] = "payments" THEN { None, Some("page") } ELSE { None } }
    \cup { Err(m) : m \in Messages }

\* The future of call c resolves and the spawned task publishes the outcome.
Complete(c, res) ==
    /\ rt[c].worker = "running"
    /\ rt' = Publish(rt, c, res)
    /\ UNCHANGED << state, substrate, signal, repaint, conns, focus, settings, disk >>

\* A redraw tick: eframe calls App::update.
Tick ==
    \E u \in { update(World) } :
    /\ state' = u.w.state
    /\ rt' = u.w.rt
    /\ signal' = u.signal
    /\ repaint' = (u.w.repaint \/ u.signal)
    /\ UNCHANGED << substrate, conns, focus, settings, disk >>

\* What a form may be set to, and the keys that have a dialog.
FormValues(f) == FormInputs(f) \cup { FormDefault(f) }
DialogKeys == { k \in KeySet : DialogOf(k) # "" /\ PanelOf(k) = k }

Next ==
    \/ \E k \in KeySet : UserTrigger(k, MaxCalls, { })
    \/ \E inp \in ConnectInputs : Connect(inp, MaxCalls, MaxConn)
    \/ Disconnect
    \/ \E f \in FormNames : \E v \in FormValues(f) : EditForm(f, v, { })
    \/ \E k \in DialogKeys : OpenDialog(k)
    \/ \E c \in DOMAIN rt : \E res \in Outcomes(c) : Complete(c, res)
    \/ Tick

Spec == Init /\ [][Next]_vars

\* ------------------------------------------------------------------ session
\* Start-up is over: the three fetches of the first connect() have been
\* answered and drained.
Ready ==
    \A k \in ConnectKeys :
        /\ << k, 1 >> \in DOMAIN rt
        /\ rt[<< k, 1 >>].worker = "done"
        /\ state.tasks[k] # Some(<< k, 1 >>)

\* The buttons the user presses in a session besides the panel operated: one
\* polled before the send slots and re-fetched by the channel mutations, one
\* polled among the send slots.
SessionButtons == { "channels", "bolt11_receive" }

\* A run that follows one session: the server answers the start-up fetches,
\* and the user waits for them before operating the UI.
NextSession ==
    \/ Ready /\ \E k \in KeySet : UserTrigger(k, 3 + MaxSessionCalls, SessionButtons)
    \/ ~Ready /\ \E inp \in ConnectInputs : Connect(inp, 3 + MaxSessionCalls, MaxConn)
    \/ Ready /\ Disconnect
    \/ Ready /\ \E f \in FormNames : \E v \in FormValues(f) : EditForm(f, v, { })
    \/ Ready /\ \E k \in DialogKeys : OpenDialog(k)
    \/ \E c \in DOMAIN rt : \E res \in Outcomes(c) :
           (Ready \/ res[1] = "Ok") /\ Complete(c, res)
    \/ Tick

SpecSession == Init /\ [][NextSession]_vars

\* The keys the user has in flight two at a time: two payments, a close and
\* a refresh of the channel list.
PairKeys == { "bolt11_send", "bolt12_send", "channels", "close_channel" }

\* A run of a session in which the user operates the panels of PairKeys
\* only, fills their forms in with values that validate, and has two
\* operations in flight together.
NextPair ==
    \/ Ready /\ \E k \in PairKeys : UserTrigger(k, 3 + MaxPairCalls, PairKeys)
    \/ ~Ready /\ \E inp \in ConnectInputs : Connect(inp, 3 + MaxPairCalls, MaxConn)
    \/ Ready /\ \E f \in PairKeys \cap FormNames : \E v \in FormValues(f) :
           /\ is_none(Validate(f, [ state.forms EXCEPT ![f] = v ]))
           /\ EditForm(f, v, PairKeys)
    \/ \E c \in DOMAIN rt : \E res \in Outcomes(c) :
           (Ready \/ res[1] = "Ok") /\ Complete(c, res)
    \/ Tick

SpecPair == Init /\ [][NextPair]_vars

\* The keys of a session in which the user closes channels, refreshes the
\* channel list and generates invoices.
CloseKeys == { "channels", "close_channel", "force_close_channel", "bolt11_receive" }

\* The server answers call c with a success.
Succeed(c) == Complete(c, Ok(Response(c, None)))

\* The user of such a session: connected once, operating the panels of
\* CloseKeys only and filling the close form in with values that validate.
CloseUser ==
    \/ Ready /\ \E k \in CloseKeys : UserTrigger(k, 3 + MaxCloseCalls, CloseKeys)
    \/ ~Ready /\ \E inp \in ConnectInputs : Connect(inp, 3 + MaxCloseCalls, MaxConn)
    \/ Ready /\ \E f \in CloseKeys \cap FormNames : \E v \in FormValues(f) :
           /\ is_none(Validate(f, [ state.forms EXCEPT ![f] = v ]))
           /\ EditForm(f, v, CloseKeys)

\* A run of such a session in which the server answers every call with a
\* success.
NextClose ==
    \/ CloseUser
    \/ \E c \in DOMAIN rt : Succeed(c)
    \/ Tick

SpecClose == Init /\ [][NextClose]_vars

\* Such a run in which every call is answered and every redraw tick that is
\* scheduled with the egui context is executed.
FairClose ==
    /\ SpecClose
    /\ WF_vars(\E c \in DOMAIN rt : Succeed(c))
    /\ WF_vars(repaint /\ Tick)

\* A run of such a session in which the server answers with a success or a
\* failure.
NextCloseAny ==
    \/ CloseUser
    \/ \E c \in DOMAIN rt : \E res \in Outcomes(c) :
           (Ready \/ res[1] = "Ok") /\ Complete(c, res)
    \/ Tick

SpecCloseAny == Init /\ [][NextCloseAny]_vars

\* The Connect and Disconnect buttons of the connection panel: Connect is
\* shown while the connection status is not Connected.
NextReconnect ==
    \/ state.connection_status # << "Connected" >>
          /\ \E inp \in ConnectInputs : Connect(inp, 3 * MaxReconnects, MaxReconnects)
    \/ Disconnect
    \/ \E c \in DOMAIN rt : \E res \in Outcomes(c) : Complete(c, res)
    \/ Tick

\* A run in which the user connects, disconnects and connects again while
\* the server answers the fetches of connect().
SpecReconnect == Init /\ [][NextReconnect]_vars

\* The task of call c ends without publishing: the future panics or the
\* runtime drops it, so tx is dropped unsent (native) or the cell is never
\* written (wasm).
Abort(c) ==
    /\ rt[c].worker = "running"
    /\ rt' = [ rt EXCEPT ![c].worker = "lost" ]
    /\ UNCHANGED << state, substrate, signal, repaint, conns, focus, settings, disk >>

\* A run of a session in which tasks may also end without an outcome.
NextStall ==
    \/ NextSession
    \/ Ready /\ \E c \in DOMAIN rt : Abort(c)

SpecStall == Init /\ [][NextStall]_vars

\* A run of a session in which every redraw tick that is scheduled with the
\* egui context is executed.
FairSession == SpecSession /\ WF_vars(repaint /\ Tick)

\* ================================================================== claims
\* The outcome of call c has not been drained: its future is still running,
\* or the outcome it published is still in the handle.
Undrained(c) == rt[c].worker = "running" \/ is_some(try_take(rt, c).res)

\* C1: in every reachable state each operation key has at most one spawned
\* call whose outcome has not been drained, and that call is the one whose
\* handle the key's slot holds; so however often a key is triggered before
\* the drain, one call stands for it.
C1_SingleFlight ==
    \A k \in KeySet :
        /\ Cardinality({ c \in CallsOf(rt, k) : Undrained(c) }) <= 1
        /\ \A c \in CallsOf(rt, k) : Undrained(c) <=> state.tasks[k] = Some(c)
        /\ is_some(state.tasks[k]) =>
               CallsOf(TriggerOf(World, k).rt, k) = CallsOf(rt, k)

\* C1 witness: a key was triggered, its only call has published an outcome
\* that no drain pass has taken yet, and the client is still held.
C1_Witness ==
    \E k \in KeySet :
        /\ CallsOf(rt, k) = { << k, 1 >> }
        /\ rt[<< k, 1 >>].worker = "done"
        /\ Undrained(<< k, 1 >>)
        /\ is_some(state.client)

\* C2: for every spawned call, on both substrates, try_take yields None while
\* the future runs; once the outcome is published it yields Some(outcome)
\* once and None from then on; and after the drain step has consumed the
\* outcome it yields None: never a second Some.
C2_TakeOnce ==
    \A c \in DOMAIN rt :
        LET t == try_take(rt, c) IN
        /\ rt[c].worker = "running" => t.res = None /\ state.tasks[c[1]] = Some(c)
        /\ (rt[c].worker = "done" /\ state.tasks[c[1]] = Some(c)) =>
               /\ is_some(t.res)
               /\ t.res[1] \in Outcomes(c)
               /\ try_take(t.rt, c).res = None
        /\ (rt[c].worker = "done" /\ state.tasks[c[1]] # Some(c)) => t.res = None

\* C2 witness: on the shared-cell handle, a call whose outcome the drain step
\* has consumed, next to a call that is still running.
C2_Witness ==
    /\ substrate = "wasm"
    /\ \E c \in DOMAIN rt : rt[c].worker = "done" /\ state.tasks[c[1]] # Some(c)
    /\ \E c \in DOMAIN rt : rt[c].worker = "running"

\* The slot of key k holds a call whose outcome is published and not taken.
Published(k) ==
    is_some(state.tasks[k]) /\ is_some(try_take(rt, state.tasks[k][1]).res)

\* The outcome a drain step would take from the slot of key k.
OutcomeOf(k) == try_take(rt, state.tasks[k][1]).res[1]

\* C3: a trigger invoked for a key whose slot is occupied changes nothing:
\* the application state (slot, status, forms, caches) and the set of calls
\* stay as they are and no frame is requested; nothing is queued, so a drain
\* pass spawns no call but the list_channels re-fetch of a channel mutation
\* that succeeded.
C3_OccupiedNoOp ==
    /\ \A k \in KeySet :
           is_some(state.tasks[k]) =>
               /\ TriggerOf(World, k) = World
               /\ TriggerOf(TriggerOf(World, k), k) = World
    /\ \A k \in KeySet :
           CallsOf(poll_tasks(World).rt, k) # CallsOf(rt, k) =>
               /\ k = "channels"
               /\ \E m \in MutKeys : Published(m) /\ OutcomeOf(m)[1] = "Ok"

\* C3 witness: a slot is occupied while a client is held and the form its
\* trigger reads is no longer valid: without the guard the trigger would
\* report a validation error.
C3_Witness ==
    \E k \in FormNames :
        /\ is_some(state.tasks[k])
        /\ is_some(state.client)
        /\ is_some(Validate(k, state.forms))

\* C4 as stated: whenever a trigger is invoked for a key whose slot is empty,
\* the slot is occupied when the trigger returns.
C4_Original ==
    \A k \in KeySet :
        is_none(state.tasks[k]) => is_some(TriggerOf(World, k).state.tasks[k])

\* C4 amended: a trigger invoked for a key whose slot is empty, while a
\* client is held and the form the trigger reads passes its validation,
\* spawns one new call with the held client and stores its handle in the
\* slot; with no client held or with invalid input it spawns no call and the
\* slot stays empty.
C4_EmptySlotSpawns ==
    \A k \in KeySet :
        is_none(state.tasks[k]) =>
            LET w1 == TriggerOf(World, k)
                c == << k, Cardinality(CallsOf(rt, k)) + 1 >>
            IN IF is_some(state.client) /\ is_none(Validate(k, state.forms))
               THEN /\ c \notin DOMAIN rt
                    /\ DOMAIN w1.rt = DOMAIN rt \cup { c }
                    /\ w1.rt[c].worker = "running"
                    /\ w1.rt[c].request.client = state.client[1]
                    /\ w1.state.tasks[k] = Some(c)
               ELSE /\ w1.rt = rt
                    /\ is_none(w1.state.tasks[k])

\* C4 witness: a trigger has spawned the first call of a key that has a form,
\* with the client now held, and the call is still running.
C4_Witness ==
    \E k \in FormNames :
        /\ is_some(state.client)
        /\ state.tasks[k] = Some(<< k, 1 >>)
        /\ rt[<< k, 1 >>].worker = "running"
        /\ rt[<< k, 1 >>].request.client = state.client[1]

\* C5 as stated: after the drain step has cleared a key's slot, on success
\* or on failure, the next trigger for that key spawns a new call.
C5_Original ==
    \A k \in KeySet :
        Published(k) =>
            LET w1 == poll_task(World, k) IN
            /\ is_none(w1.state.tasks[k])
            /\ Cardinality(CallsOf(TriggerOf(w1, k).rt, k))
                   = Cardinality(CallsOf(rt, k)) + 1

\* C5 amended: the drain step clears a key's slot on success and on failure,
\* and the guard then lets the next trigger through: made while a client is
\* held and with input that passes the trigger's validation, it spawns a new
\* call, the calls of the key then being one more than before.
C5_NotLatched ==
    \A k \in KeySet :
        Published(k) =>
            LET w1 == poll_task(World, k)
                w2 == TriggerOf(w1, k)
                n == Cardinality(CallsOf(rt, k))
            IN /\ is_none(w1.state.tasks[k])
               /\ (is_some(w1.state.client) /\ is_none(Validate(k, w1.state.forms))) =>
                      /\ w2.state.tasks[k] = Some(<< k, n + 1 >>)
                      /\ Cardinality(CallsOf(w2.rt, k)) = n + 1

\* C5 witness: the second call of a key is in its slot after the first one
\* failed and was drained.
C5_Witness ==
    \E k \in KeySet :
        /\ state.tasks[k] = Some(<< k, 2 >>)
        /\ rt[<< k, 1 >>].worker = "done"
        /\ state.status_message = Some(StatusError(<< "insufficient funds" >>))

\* C6: after every drain pass the signal computed by that tick is true
\* exactly if some slot is occupied at the end of the pass, the slots filled
\* during the pass by a re-fetch included.
C6_SignalIffOccupied ==
    [][ Tick => (signal' <=> \E k \in KeySet : is_some(state'.tasks[k])) ]_vars

\* C6 witness: a tick has drained a successful open_channel; the only slot
\* occupied at the end of the pass is channels, filled by the handler's
\* re-fetch, and the signal of that tick is true.
C6_Witness ==
    /\ signal
    /\ is_some(state.last_channel_id)
    /\ state.tasks["channels"] = Some(<< "channels", 2 >>)
    /\ rt[<< "channels", 2 >>].worker = "running"
    /\ \A k \in KeySet \ { "channels" } : is_none(state.tasks[k])

\* The call in the slot of key k has completed and its outcome waits there.
Awaiting(k) ==
    is_some(state.tasks[k]) /\ rt[state.tasks[k][1]].worker = "done"

\* Some slot holds a call that has completed.
AnyAwaiting == \E k \in KeySet : Awaiting(k)

\* C7: if the call of an occupied slot completes, the slot is eventually
\* drained, provided that every scheduled redraw tick is executed: from a
\* state where outcomes wait in slots a state is reached where none waits
\* (an outcome leaves its slot only by being drained).
C7_EventuallyDrained ==
    AnyAwaiting ~> ~AnyAwaiting

\* C7 witness: the re-fetch of the channel list that a drain pass spawned
\* after a successful open_channel has completed and waits to be drained; no
\* slot polled after channels was occupied when it was spawned.
C7_Witness ==
    /\ Awaiting("channels")
    /\ state.tasks["channels"] = Some(<< "channels", 2 >>)
    /\ is_some(state.last_channel_id)
    /\ \A k \in KeySet \ { "channels" } : is_none(state.tasks[k])

\* The outcome waiting in the slot of key k is a failure.
Failed(k) == Published(k) /\ OutcomeOf(k)[1] = "Err"

\* C8: a drain pass that observes the failure of key A ends as the pass
\* would have ended had A's slot been empty, but for the status message and
\* A's own call: every other slot, every cached result, form and dialog flag
\* and every other call is the same, the pass goes on to the slots after A,
\* and every other outcome that waited is taken by its own handler.
C8_FailureIsLocal ==
    \A A \in KeySet :
        Failed(A) =>
            LET a == state.tasks[A][1]
                w1 == poll_tasks(World)
                w0 == poll_tasks([ World EXCEPT !.state.tasks[A] = None ])
            IN /\ [ w1.state EXCEPT !.status_message = None ]
                      = [ w0.state EXCEPT !.status_message = None ]
               /\ w1.state.status_message \in
                      { w0.state.status_message,
                        Some(StatusError(<< OutcomeOf(A)[2] >>)) }
               /\ DOMAIN w1.rt = DOMAIN w0.rt
               /\ \A c \in DOMAIN w1.rt \ { a } : w1.rt[c] = w0.rt[c]
               /\ w1.repaint = w0.repaint
               /\ \A B \in KeySet \ { A } :
                      Published(B) => w1.state.tasks[B] # state.tasks[B]

\* C8 witness: the outcomes of two keys wait in their slots, a failure in
\* the first and a success in one polled after it.
C8_Witness ==
    \E A, B \in KeySet :
        /\ Failed(A)
        /\ Published(B) /\ OutcomeOf(B)[1] = "Ok"
        /\ \E i, j \in 1..Len(PollOrder) :
               i < j /\ PollOrder[i] = A /\ PollOrder[j] = B

\* C9: the drain step that takes Err(message) from a slot clears the slot
\* and sets the status to an error with exactly that message; nothing else
\* of the application state changes (no cache, form or dialog flag), no
\* call is spawned for any key and no frame is requested.
C9_ErrArm ==
    \A k \in KeySet :
        Failed(k) =>
            LET w1 == poll_task(World, k)
                m == OutcomeOf(k)[2]
            IN /\ m \in Messages
               /\ w1.state =
                      [ state EXCEPT
                          !.tasks[k] = None,
                          !.status_message =
                              Some([ text |-> << m >>, is_error |-> TRUE ]) ]
               /\ DOMAIN w1.rt = DOMAIN rt
               /\ \A c \in DOMAIN rt : w1.rt[c].worker = rt[c].worker
               /\ is_none(try_take(w1.rt, state.tasks[k][1]).res)
               /\ ~w1.repaint

\* C9 witness: a channel operation whose dialog is open and whose form is
\* filled has failed while a success status is shown.
C9_Witness ==
    \E k \in MutKeys :
        /\ Failed(k)
        /\ state[DialogOf(k)]
        /\ state.forms[FormOf(k)] # FormDefault(FormOf(k))
        /\ is_some(state.status_message)
        /\ ~state.status_message[1].is_error

\* The keys polled after onchain_send whose outcome waits in the slot.
LaterDone ==
    { k \in KeySet :
        /\ Published(k)
        /\ \E i, j \in 1..Len(PollOrder) :
               i < j /\ PollOrder[i] = "onchain_send" /\ PollOrder[j] = k }

\* The one of a set of keys that is polled last.
LastPolled(S) ==
    CHOOSE k \in S :
        \A x \in S : \E i, j \in 1..Len(PollOrder) :
            i <= j /\ PollOrder[i] = x /\ PollOrder[j] = k

\* C10 as stated: when send on-chain fails with message m, then after the
\* drain pass, whatever the other slots hold, the onchain_send slot is empty,
\* last_txid and the send form are unchanged and the status holds exactly m.
C10_Original ==
    Failed("onchain_send") =>
        LET w1 == poll_tasks(World) IN
        /\ is_none(w1.state.tasks["onchain_send"])
        /\ w1.state.last_txid = state.last_txid
        /\ w1.state.forms["onchain_send"] = state.forms["onchain_send"]
        /\ w1.state.status_message =
               Some(StatusError(<< OutcomeOf("onchain_send")[2] >>))

\* C10 amended: when send on-chain fails with message m, then after the
\* drain pass, whatever the other slots hold, the onchain_send slot is empty
\* and last_txid and the send form are unchanged; the status holds exactly m
\* if no slot polled after onchain_send yields an outcome in that pass, and
\* otherwise the status written for the last such slot.
C10_SendFailure ==
    Failed("onchain_send") =>
        LET w1 == poll_tasks(World) IN
        /\ is_none(w1.state.tasks["onchain_send"])
        /\ w1.state.last_txid = state.last_txid
        /\ w1.state.forms["onchain_send"] = state.forms["onchain_send"]
        /\ w1.state.status_message =
               IF LaterDone = { }
               THEN Some(StatusError(<< OutcomeOf("onchain_send")[2] >>))
               ELSE poll_task(World, LastPolled(LaterDone)).state.status_message

\* C10 witness: the failure of send on-chain waits in its slot, the send
\* form still filled, together with a generated invoice, polled after it.
C10_Witness ==
    /\ Failed("onchain_send")
    /\ Published("bolt11_receive")
    /\ OutcomeOf("bolt11_receive")[1] = "Ok"
    /\ state.forms["onchain_send"] # FormDefault("onchain_send")

\* The outcome waiting in the slot of key k is a success.
Succeeded(k) == Published(k) /\ OutcomeOf(k)[1] = "Ok"

\* The fields of AppState in which the success handlers store responses.
CacheFields ==
    { "node_info", "balances", "channels", "payments", "payments_page_token",
      "onchain_address", "generated_invoice", "generated_offer",
      "last_payment_id", "last_txid", "last_channel_id" }

\* C11: the drain step that takes Ok(payload) from the slot of key k clears
\* that slot and stores the payload of the call that was in the slot; every
\* response field but the one k's handler stores into, every form but k's
\* and every other slot (channels apart, after a channel mutation) is as
\* before, so no other key's handler ran; and a second pass right after the
\* first applies nothing again.
C11_OkArm ==
    /\ \A k \in KeySet :
           Succeeded(k) =>
               LET c == state.tasks[k][1]
                   v == OutcomeOf(k)[2]
                   w1 == poll_task(World, k)
                   changed == { f \in CacheFields : w1.state[f] # state[f] }
               IN /\ v.call = c
                  /\ is_none(w1.state.tasks[k])
                  /\ is_none(try_take(w1.rt, c).res)
                  /\ \A f \in changed :
                         /\ w1.state[f] =
                                IF f \in { "node_info", "balances", "channels", "payments" }
                                THEN Some(v)
                                ELSE IF f = "payments_page_token"
                                THEN v.next_page_token
                                ELSE Some(v.call)
                         /\ f \in { k, "payments_page_token" }
                              \/ << k, f >> \in
                                   { << "onchain_receive", "onchain_address" >>,
                                     << "onchain_send", "last_txid" >>,
                                     << "bolt11_receive", "generated_invoice" >>,
                                     << "bolt11_send", "last_payment_id" >>,
                                     << "bolt12_receive", "generated_offer" >>,
                                     << "bolt12_send", "last_payment_id" >>,
                                     << "open_channel", "last_channel_id" >> }
                  /\ k \notin MutKeys \cup { "connect_peer" } => changed # { }
                  /\ \A f \in FormNames \ { FormOf(k) } :
                         w1.state.forms[f] = state.forms[f]
                  /\ \A j \in KeySet \ { k } :
                         w1.state.tasks[j] # state.tasks[j] =>
                             j = "channels" /\ k \in MutKeys
    /\ LET w1 == poll_tasks(World)
           w2 == poll_tasks([ w1 EXCEPT !.repaint = FALSE ])
       IN w2.state = w1.state /\ DOMAIN w2.rt = DOMAIN w1.rt

\* C11 witness: the success of send on-chain was drained: its txid is
\* stored and shown, the form is reset and the slot is empty.
C11_Witness ==
    /\ state.last_txid = Some(<< "onchain_send", 1 >>)
    /\ state.status_message =
           Some(StatusSuccess(<< "Sent! TXID: ", << "onchain_send", 1 >> >>))
    /\ is_none(state.tasks["onchain_send"])
    /\ state.forms["onchain_send"] = FormDefault("onchain_send")

\* The text a channel mutation's handler shows, when it has no argument.
MutationText(k) ==
    CASE k = "close_channel" -> << "Channel close initiated" >>
      [] k = "force_close_channel" -> << "Force close initiated" >>
      [] k = "splice_in" -> << "Splice-in initiated" >>
      [] k = "update_channel_config" -> << "Channel config updated" >>

\* C12: the drain step that takes the success of open_channel,
\* close_channel, force_close_channel, splice_in, splice_out or
\* update_channel_config clears that slot, runs its handler (status, form
\* and dialog) and issues the list-channels trigger in the same step: with
\* the channels slot empty and a client held one new list_channels call is
\* in the slot, else the trigger is dropped; so the pass ends with the
\* channels slot occupied whenever a client is held.
C12_MutationRefetch ==
    \A k \in MutKeys :
        Succeeded(k) =>
            LET v == OutcomeOf(k)[2]
                w1 == poll_task(World, k)
                n == Cardinality(CallsOf(rt, "channels"))
                wp == poll_tasks(World)
            IN /\ is_none(w1.state.tasks[k])
               /\ is_some(w1.state.status_message)
               /\ ~w1.state.status_message[1].is_error
               /\ w1.state.status_message[1].text =
                      CASE k = "open_channel" -> << "Channel opened! ID: ", v.call >>
                        [] k = "splice_out" -> << "Splice-out initiated to ", v.call >>
                        [] OTHER -> MutationText(k)
               /\ w1.state.forms[FormOf(k)] = FormDefault(FormOf(k))
               /\ ~w1.state[DialogOf(k)]
               /\ IF is_none(state.tasks["channels"]) /\ is_some(state.client)
                  THEN /\ w1.state.tasks["channels"] = Some(<< "channels", n + 1 >>)
                       /\ DOMAIN w1.rt = DOMAIN rt \cup { << "channels", n + 1 >> }
                       /\ w1.rt[<< "channels", n + 1 >>].worker = "running"
                       /\ w1.rt[<< "channels", n + 1 >>].request.client = state.client[1]
                  ELSE /\ w1.state.tasks["channels"] = state.tasks["channels"]
                       /\ DOMAIN w1.rt = DOMAIN rt
               /\ is_some(state.client) => is_some(wp.state.tasks["channels"])
               /\ Cardinality(CallsOf(wp.rt, "channels")) <= n + 1

\* C12 witness: the success of splice_out waits in its slot with the dialog
\* open, a client held and the channels slot empty.
C12_Witness ==
    /\ Succeeded("splice_out")
    /\ state.show_splice_out_dialog
    /\ is_some(state.client)
    /\ is_none(state.tasks["channels"])

\* C13: the drain step that polls an occupied slot whose call has not
\* completed leaves the application state and the calls as they are (same
\* handle in the slot, no handler run, caches, forms and status untouched);
\* it only requests a frame, and the signal of that tick is true.
C13_PendingPoll ==
    \A k \in KeySet :
        (is_some(state.tasks[k]) /\ ~Published(k)) =>
            /\ rt[state.tasks[k][1]].worker = "running"
            /\ poll_task(World, k) = [ World EXCEPT !.repaint = TRUE ]
            /\ poll_tasks(World).state.tasks[k] = state.tasks[k]
            /\ poll_tasks(World).repaint
            /\ update(World).signal

\* C13 witness: a call is running for a key with a form, the form is filled
\* and a status is shown.
C13_Witness ==
    \E k \in FormNames :
        /\ is_some(state.tasks[k])
        /\ rt[state.tasks[k][1]].worker = "running"
        /\ state.forms[FormOf(k)] # FormDefault(FormOf(k))
        /\ is_some(state.status_message)
        /\ signal

Stalled(k) ==
    is_some(state.tasks[k]) /\ rt[state.tasks[k][1]].worker = "lost"

\* C15: once the work of an occupied slot has ended without an outcome, or
\* for as long as it produces none, the slot keeps its handle through every
\* step, a trigger of that key is dropped, and every tick ends with the
\* signal true and a frame requested; meanwhile every other key is
\* triggered and drained as usual.
C15_StalledSlot ==
    [][ \A k \in KeySet :
          /\ (is_some(state.tasks[k]) /\ ~Published(k)) =>
                 /\ state'.tasks[k] = state.tasks[k]
                 /\ TriggerOf(World, k) = World
                 /\ Tick => signal' /\ repaint'
          /\ Stalled(k) =>
                 /\ Stalled(k)'
                 /\ Tick => signal' /\ repaint'
                 /\ \A j \in KeySet \ { k } :
                        /\ Published(j) =>
                               poll_tasks(World).state.tasks[j] # state.tasks[j]
                        /\ (is_none(state.tasks[j]) /\ is_some(state.client)
                              /\ is_none(Validate(j, state.forms))) =>
                               is_some(TriggerOf(World, j).state.tasks[j])
      ]_vars

\* C15 witness: the task of generate-invoice ended without an outcome and
\* its slot is still occupied, while a send on-chain triggered next to it
\* has been drained.
C15_Witness ==
    /\ Stalled("bolt11_receive")
    /\ << "onchain_send", 1 >> \in DOMAIN rt
    /\ rt[<< "onchain_send", 1 >>].worker = "done"
    /\ is_none(state.tasks["onchain_send"])
    /\ signal

\* The order of the registry.
RegistryOrder ==
    << "node_info", "balances", "channels", "payments", "onchain_receive",
       "onchain_send", "bolt11_receive", "bolt11_send", "bolt12_receive",
       "bolt12_send", "open_channel", "close_channel", "force_close_channel",
       "splice_in", "splice_out", "update_channel_config", "connect_peer" >>

\* One drain step for each key of ks, in the order of ks.
RECURSIVE DrainInOrder(_, _)
DrainInOrder(w, ks) ==
    IF ks = << >> THEN w
    ELSE DrainInOrder(CHOOSE w1 \in { poll_task(w0, Head(ks)) : w0 \in { w } } : TRUE,
                      Tail(ks))

\* The world in which the running calls c1 and c2 publish r1 and r2, c1 first.
PublishedInTurn(c1, r1, c2, r2) ==
    [ World EXCEPT !.rt = Publish(Publish(rt, c1, r1), c2, r2) ]

\* C16: outcomes are applied only inside the drain pass (a step that takes
\* an outcome out of a handle is a tick); a pass polls every slot once, so
\* what it does to state and handles is one drain step for each slot whose
\* outcome is published, taken in registry order node_info, balances,
\* channels, payments, onchain_receive, onchain_send, bolt11_receive,
\* bolt11_send, bolt12_receive, bolt12_send, open_channel, close_channel,
\* force_close_channel, splice_in, splice_out, update_channel_config,
\* connect_peer, and a call spawned during the pass is not polled in it; the
\* pass is the same whichever of two calls published first.
C16_DrainOrder ==
    /\ [] LET done == SelectSeq(RegistryOrder, LAMBDA k : Published(k))
              w1 == poll_tasks(World)
              w2 == DrainInOrder(World, done)
          IN /\ Len(PollOrder) = Cardinality(KeySet)
             /\ { PollOrder[i] : i \in 1..Len(PollOrder) } = KeySet
             /\ w1.state = w2.state
             /\ w1.rt = w2.rt
             /\ \A k \in KeySet :
                    (is_some(w1.state.tasks[k]) /\ w1.state.tasks[k] # state.tasks[k]) =>
                        w1.rt[w1.state.tasks[k][1]].worker = "running"
             /\ \A c1, c2 \in DOMAIN rt :
                    (c1 # c2 /\ rt[c1].worker = "running" /\ rt[c2].worker = "running") =>
                        \A r1 \in Outcomes(c1), r2 \in Outcomes(c2) :
                            poll_tasks(PublishedInTurn(c1, r1, c2, r2))
                                = poll_tasks(PublishedInTurn(c2, r2, c1, r1))
    /\ [][ (\E c \in DOMAIN rt :
               is_some(try_take(rt, c).res) /\ is_none(try_take(rt', c).res)) => Tick
         ]_vars

\* C16 witness: two outcomes that both write the status wait in their slots
\* before one pass, a sent transaction and a generated invoice.
C16_Witness ==
    /\ Succeeded("onchain_send")
    /\ Succeeded("bolt11_receive")
    /\ is_none(state.last_txid)

\* The call c is outstanding: it is in the slot of its key and still running.
Outstanding(c) == state.tasks[c[1]] = Some(c) /\ rt[c].worker = "running"

\* The call c publishes res and the next tick drains it.
CompleteThenTick(w, c, res) == poll_tasks([ w EXCEPT !.rt = Publish(w.rt, c, res) ])

\* The application state after c1 completed and was drained, then c2.
DrainedInTurn(c1, r1, c2, r2) ==
    CompleteThenTick(CompleteThenTick(World, c1, r1), c2, r2).state

\* The fields of the application state, the status apart, in which two
\* states differ.
Differing(a, b) == { f \in DOMAIN a \ { "status_message" } : a[f] # b[f] }

\* C17 as stated: once two outstanding calls on distinct keys have both been
\* drained, the application state other than the status is the same
\* whichever of the two completed first.
C17_Original ==
    \A c1, c2 \in DOMAIN rt :
        (c1[1] # c2[1] /\ Outstanding(c1) /\ Outstanding(c2)) =>
            \A r1 \in Outcomes(c1), r2 \in Outcomes(c2) :
                Differing(DrainedInTurn(c1, r1, c2, r2),
                          DrainedInTurn(c2, r2, c1, r1)) = { }

\* C17 amended: once two outstanding calls on distinct keys have both been
\* drained, the application state other than the status, last_payment_id
\* and the channels slot is the same whichever of the two completed first.
\* last_payment_id is written by both payment sends (bolt11_send,
\* bolt12_send) and holds the id of the one drained last: it depends on the
\* order only when one of the two calls is a payment send and the other
\* payment send is in flight too.  The re-fetch of a channel mutation is
\* dropped when list channels is outstanding: the channels slot depends on
\* the order only when one of the two calls is list channels and a channel
\* mutation is in flight, and then it is occupied only if list channels was
\* drained first.
C17_OrderIndependent ==
    \A c1, c2 \in DOMAIN rt :
        (c1[1] # c2[1] /\ Outstanding(c1) /\ Outstanding(c2)) =>
            \A r1 \in Outcomes(c1), r2 \in Outcomes(c2) :
                LET a == DrainedInTurn(c1, r1, c2, r2)
                    b == DrainedInTurn(c2, r2, c1, r1)
                    sends == { "bolt11_send", "bolt12_send" }
                IN /\ Differing(a, b) \subseteq { "last_payment_id", "tasks" }
                   /\ \A k \in KeySet \ { "channels" } : a.tasks[k] = b.tasks[k]
                   /\ a.last_payment_id # b.last_payment_id =>
                          /\ { c1[1], c2[1] } \cap sends # { }
                          /\ \A k \in sends : is_some(state.tasks[k])
                   /\ a.tasks # b.tasks =>
                          /\ "channels" \in { c1[1], c2[1] }
                          /\ \E k \in MutKeys : is_some(state.tasks[k])
                   /\ ({ c1[1], c2[1] } = sends /\ r1[1] = "Ok" /\ r2[1] = "Ok") =>
                          /\ a.last_payment_id = Some(c2)
                          /\ b.last_payment_id = Some(c1)
                   /\ (c1[1] = "channels" /\ c2[1] \in MutKeys /\ r2[1] = "Ok") =>
                          /\ is_some(a.tasks["channels"])
                          /\ a.tasks["channels"] # Some(c1)
                          /\ is_none(b.tasks["channels"])

\* C17 witness: a bolt11 send and a bolt12 send are outstanding together,
\* no payment yet recorded.
C17_Witness ==
    /\ \E c1, c2 \in DOMAIN rt :
           /\ c1[1] = "bolt11_send" /\ c2[1] = "bolt12_send"
           /\ Outstanding(c1) /\ Outstanding(c2)
    /\ is_none(state.last_payment_id)

\* The keys whose success handler writes no status.
SilentKeys == { "node_info", "balances", "channels", "payments" }

\* The keys whose outcome waits in the slot and whose arm writes the status.
StatusWriters == { k \in KeySet : Failed(k) \/ (Succeeded(k) /\ k \notin SilentKeys) }

\* The status that the arm for the outcome waiting in the slot of k writes.
StatusWritten(k) ==
    IF Failed(k) THEN Some(StatusError(<< OutcomeOf(k)[2] >>))
    ELSE Handler(World, k, OutcomeOf(k)[2]).state.status_message

\* C18: the status holds one message at most, the one written last, and no
\* history: after a drain pass it is the message written for the slot that
\* is polled last among the completed slots whose arm writes a status,
\* whatever the earlier ones wrote, and it is as before when there is none.
C18_LastStatusWins ==
    LET w1 == poll_tasks(World) IN
    /\ Len(state.status_message) <= 1
    /\ Len(w1.state.status_message) <= 1
    /\ w1.state.status_message =
           IF StatusWriters = { } THEN state.status_message
           ELSE StatusWritten(LastPolled(StatusWriters))

\* C18 witness: a sent transaction and a failed invoice request wait in
\* their slots before one pass, while the status shows something else.
C18_Witness ==
    /\ Succeeded("onchain_send")
    /\ Failed("bolt11_receive")
    /\ state.status_message \notin { StatusWritten("onchain_send"),
                                     StatusWritten("bolt11_receive") }

\* The handles of r as the native substrate holds them: what waits in the
\* shared cell waits in the channel.
AsNative(r) ==
    [ c \in DOMAIN r |->
        IF "rx" \in DOMAIN r[c] THEN r[c]
        ELSE [ worker |-> r[c].worker, rx |-> r[c].result, request |-> r[c].request ] ]

\* The handles of r as the wasm substrate holds them: the message in the
\* channel is the content of the shared cell.
AsWasm(r) ==
    [ c \in DOMAIN r |->
        IF "result" \in DOMAIN r[c] THEN r[c]
        ELSE [ worker |-> r[c].worker,
               result |-> IF Len(r[c].rx) > 0 THEN Some(Head(r[c].rx)) ELSE None,
               request |-> r[c].request ] ]

\* C19: the native and the wasm handle are observationally equivalent.  In
\* every reachable state, on either substrate, the handles seen as native
\* and seen as wasm correspond (a channel never holds two messages), and
\* the correspondence is kept by each event: try_take returns the same
\* result on both and leaves corresponding handles, so does a second
\* try_take; a spawn adds corresponding handles; a completion publishes the
\* same outcome to both.  So the same sequence of events gives the same
\* try_take results, and the registry, which sees the handle through
\* try_take only, reaches the same states.
C19_SubstrateEquivalence ==
    LET n == AsNative(rt)
        w == AsWasm(rt)
    IN /\ AsWasm(n) = w
       /\ AsNative(w) = n
       /\ \A c \in DOMAIN rt :
              LET tn == try_take_native(n, c)
                  tw == try_take_wasm(w, c)
              IN /\ Len(n[c].rx) <= 1
                 /\ tn.res = tw.res
                 /\ try_take(rt, c).res = tn.res
                 /\ AsWasm(tn.rt) = tw.rt
                 /\ AsNative(tw.rt) = tn.rt
                 /\ try_take_native(tn.rt, c).res = None
                 /\ try_take_wasm(tw.rt, c).res = None
                 /\ rt[c].worker = "running" =>
                        \A res \in Outcomes(c) :
                            /\ try_take_native(AsNative(Publish(rt, c, res)), c).res = Some(res)
                            /\ try_take_wasm(AsWasm(Publish(rt, c, res)), c).res = Some(res)
                 /\ rt[c].worker = "lost" => tn.res = None /\ tw.res = None
       /\ \A k \in KeySet : is_some(state.client) =>
              LET c == << k, Cardinality(CallsOf(rt, k)) + 1 >>
                  req == RequestOf(state, k)
              IN /\ AsWasm(spawn_with_runtime(n, c, req)) = spawn_local(w, c, req)
                 /\ AsNative(spawn_local(w, c, req)) = spawn_with_runtime(n, c, req)
                 /\ AsWasm(spawn_task(World, k, req).rt) = spawn_local(w, c, req)

\* C19 witness: on the native substrate, one handle whose outcome waits in
\* the channel, one whose outcome was taken, and one whose sender was
\* dropped without a message.
C19_Witness ==
    /\ substrate = "native"
    /\ \E c \in DOMAIN rt : rt[c].worker = "done" /\ Len(rt[c].rx) = 1
    /\ \E c \in DOMAIN rt : rt[c].worker = "done" /\ Len(rt[c].rx) = 0
    /\ \E c \in DOMAIN rt : rt[c].worker = "lost"

\* The handle of call c has yielded its outcome.
Yielded(c) == rt[c].worker = "done" /\ is_none(try_take(rt, c).res)

\* C20: try_take is never called on a handle that has yielded Some(outcome).
\* The drain pass calls try_take on the handles in the slots only, and no
\* slot holds a handle that has yielded: the tick that receives the outcome
\* of the slot of key k leaves, in that same step, the handle yielded and
\* out of the slot (the slot empty, or holding the handle of a newer call).
C20_NoPollAfterYield ==
    /\ [] \A c \in DOMAIN rt : Yielded(c) => state.tasks[c[1]] # Some(c)
    /\ [][ Tick => \A k \in KeySet : Published(k) =>
                      /\ state'.tasks[k] # state.tasks[k]
                      /\ rt'[state.tasks[k][1]].worker = "done"
                      /\ is_none(try_take(rt', state.tasks[k][1]).res)
                      /\ is_some(state'.tasks[k]) =>
                             rt'[state'.tasks[k][1]].worker = "running"
         ]_vars

\* C20 witness: the first list_channels handle has yielded and the key is
\* polled again, its slot holding the handle of a newer call.
C20_Witness ==
    /\ << "channels", 2 >> \in DOMAIN rt
    /\ Yielded(<< "channels", 1 >>)
    /\ state.tasks["channels"] = Some(<< "channels", 2 >>)
    /\ ~Yielded(<< "channels", 2 >>)

\* C21: a drain pass never waits for outstanding work.  In every state,
\* whatever the calls in flight are doing (running, or ended without an
\* outcome), the tick can run to its end, and its pass leaves every slot
\* whose call has published nothing as it found it, handle and call
\* untouched: it has polled the slot once and gone on.
C21_PassNeverWaits ==
    /\ ENABLED Tick
    /\ LET w1 == poll_tasks(World) IN
       \A k \in KeySet :
           (is_some(state.tasks[k]) /\ rt[state.tasks[k][1]].worker \in { "running", "lost" }) =>
               /\ w1.state.tasks[k] = state.tasks[k]
               /\ w1.rt[state.tasks[k][1]] = rt[state.tasks[k][1]]
               /\ w1.repaint

\* C21 witness: before one pass, a call that ended without an outcome and a
\* call whose outcome waits, each in its slot.
C21_Witness ==
    /\ \E k \in KeySet : Stalled(k)
    /\ \E k \in KeySet : Published(k)

\* The caches that disconnect() clears.
ConnectionCaches == { "node_info", "balances", "channels", "payments" }

\* C22: while no client is held (from a disconnect until the next successful
\* connect) the cached node info, balances, channels and payments are
\* empty: no drain pass stores into them, even for calls that were in
\* flight when disconnect was invoked.
C22_EmptyWhileDisconnected ==
    is_none(state.client) => \A f \in ConnectionCaches : is_none(state[f])

\* C23: every response held in the cached node info, balances or channels
\* while a client is held was produced by a call made with that client:
\* after a disconnect and a new successful connect, no outcome of a call of
\* the previous connection is stored.
C23_CachesOfCurrentClient ==
    is_some(state.client) =>
        \A f \in { "node_info", "balances", "channels" } :
            is_some(state[f]) =>
                rt[state[f][1].call].request.client = state.client[1]

\* The number of list_channels calls spawned so far.
ChannelsCalls == Cardinality(CallsOf(rt, "channels"))

\* C24: after a channel mutation has succeeded, the client staying
\* connected and every call being answered, the cached channel list is
\* eventually the response of a list_channels call spawned no earlier than
\* the drain step that observes the success: with n list_channels calls
\* spawned when the success of close_channel waits in its slot, the cache
\* eventually holds the response of a call after the n-th.
C24_ListRefreshed ==
    \A n \in 1..(1 + MaxCloseCalls) :
        (Succeeded("close_channel") /\ ChannelsCalls = n)
            ~> (is_some(state.channels) /\ state.channels[1].call[2] > n)

\* The position of key k in the drain pass.
PollPosition(k) == CHOOSE i \in 1..Len(PollOrder) : PollOrder[i] = k

\* The expansions of the drain pass from the i-th to the j-th.
RECURSIVE PollRange(_, _, _)
PollRange(w, i, j) ==
    IF i > j THEN w
    ELSE PollRange(CHOOSE w1 \in { poll_task(w0, PollOrder[i]) : w0 \in { w } } : TRUE,
                   i + 1, j)

\* The world after a drain pass during which the pool thread publishes res
\* for call c just before the i-th expansion.
PassWithCompletion(c, res, i) ==
    LET w1 == PollRange(World, 1, i - 1)
        w2 == [ w1 EXCEPT !.rt = Publish(w1.rt, c, res) ]
    IN PollRange(w2, i, Len(PollOrder))

\* C25: on the multi-threaded substrate a call may complete at any moment
\* of the drain pass, and no outcome is lost or delivered twice.  If the
\* call completes before its slot is polled, the pass is the pass that
\* follows the completion; if it completes after its slot was polled, the
\* pass is the pass that precedes the completion: the slot is still occupied,
\* the pending signal of the tick is true, the outcome waits in the handle,
\* and the next pass delivers it, after which the handle yields nothing.
C25_CompletionDuringPass ==
    substrate = "native" =>
        \A c \in DOMAIN rt : Outstanding(c) =>
            \A res \in Outcomes(c) : \A i \in 1..(Len(PollOrder) + 1) :
                LET w == PassWithCompletion(c, res, i)
                    before == poll_tasks([ World EXCEPT !.rt = Publish(rt, c, res) ])
                    after == poll_tasks(World)
                IN IF i <= PollPosition(c[1])
                   THEN /\ w = before
                        /\ w.state.tasks[c[1]] # Some(c)
                        /\ try_take(w.rt, c).res = None
                   ELSE /\ w = [ after EXCEPT !.rt = Publish(after.rt, c, res) ]
                        /\ w.state.tasks[c[1]] = Some(c)
                        /\ any_pending(w.state.tasks)
                        /\ try_take(w.rt, c).res = Some(res)
                        /\ LET w3 == poll_tasks(w) IN
                           /\ w3.state.tasks[c[1]] # Some(c)
                           /\ try_take(w3.rt, c).res = None
                           /\ w3.state = poll_task(w, c[1]).state

\* C25 witness: on the native substrate two calls are outstanding, one
\* polled early in the pass and one late, while a frame is being drawn.
C25_Witness ==
    /\ substrate = "native"
    /\ \E c1, c2 \in DOMAIN rt :
           /\ Outstanding(c1) /\ Outstanding(c2)
           /\ PollPosition(c1[1]) < PollPosition(c2[1])
    /\ repaint

\* C26: a trigger on an empty slot, with a client held and form input that
\* fails its validation, spawns no call, leaves the slot empty and every
\* field but the status as it was, and sets the status to the error of the
\* validation; the guard is not consumed: once the form holds input that
\* validates, the trigger spawns the call into the slot.
C26_InvalidInput ==
    \A k \in KeySet :
        (is_none(state.tasks[k]) /\ is_some(state.client)
           /\ is_some(Validate(k, state.forms))) =>
            LET w == TriggerOf(World, k) IN
            /\ w.rt = rt
            /\ is_none(w.state.tasks[k])
            /\ w.state = [ state EXCEPT !.status_message = w.state.status_message ]
            /\ is_some(w.state.status_message)
            /\ w.state.status_message[1].is_error
            /\ w.state.status_message[1].text = Validate(k, state.forms)[1]
            /\ \A v \in FormValues(FormOf(k)) :
                   LET w1 == [ w EXCEPT !.state.forms[FormOf(k)] = v ]
                       w2 == TriggerOf(w1, k)
                   IN is_none(Validate(k, w1.state.forms)) =>
                          /\ is_some(w2.state.tasks[k])
                          /\ w2.state.tasks[k][1] \notin DOMAIN rt
                          /\ w2.rt[w2.state.tasks[k][1]].worker = "running"

\* C26 witness: open_channel was triggered with an amount that is no
\* number: its error is shown, the slot is empty and no call of the key was
\* ever spawned.
C26_Witness ==
    /\ is_some(state.client)
    /\ state.status_message = Some(StatusError(<< "Invalid channel amount" >>))
    /\ is_none(state.tasks["open_channel"])
    /\ CallsOf(rt, "open_channel") = { }
    /\ state.forms["open_channel"].channel_amount_sats = "abc"

\* C27: while no client is held, never connected or after disconnect, every
\* trigger leaves the application state and the calls as they are, whatever
\* the slot and the form hold: nothing is spawned and no status or
\* validation error is written; and the drain step of a channel mutation
\* that succeeds then spawns no list_channels call and leaves the channels
\* slot as it was.
C27_NoClientNoEffect ==
    is_none(state.client) =>
        /\ \A k \in KeySet : TriggerOf(World, k) = World
        /\ \A k \in MutKeys : Succeeded(k) =>
               LET w == poll_task(World, k) IN
               /\ DOMAIN w.rt = DOMAIN rt
               /\ w.state.tasks["channels"] = state.tasks["channels"]
               /\ is_none(w.state.tasks[k])

\* C27 witness: after a disconnect, the success of a channel mutation waits
\* in its slot, the channels slot empty and the form of the key filled in.
C27_Witness ==
    /\ is_none(state.client)
    /\ state.connection_status = << "Disconnected" >>
    /\ \E k \in MutKeys : Succeeded(k) /\ state.forms[FormOf(k)] # FormDefault(FormOf(k))
    /\ is_none(state.tasks["channels"])
    /\ \E k \in FormNames : is_some(Validate(k, state.forms))

\* C28: a successful connect stores the new client, sets the connection
\* status to Connected and issues exactly the node_info, balances and
\* channels triggers: each of the three slots that was empty holds a new
\* running call, every other slot and every call is as before.  A failed
\* connect (a missing field, an unreadable certificate, a client that
\* cannot be constructed) stores no new client, spawns no call, leaves
\* every slot unchanged and reports the failure in the status.
C28_Connect ==
    \A inp \in ConnectInputs :
        LET g == conns + 1
            w == connect(World, inp, g)
            failed == \/ Trim(inp.server_url) = "" \/ inp.api_key = ""
                      \/ substrate = "native" /\ Trim(inp.tls_cert_path) = ""
                      \/ substrate = "native" /\ inp.cert[1] = "Err"
                      \/ inp.new[1] = "Err"
        IN IF failed
           THEN /\ w.state.client = state.client
                /\ w.rt = rt
                /\ w.state.tasks = state.tasks
                /\ is_some(w.state.status_message)
                /\ w.state.status_message[1].is_error
                /\ w.state.connection_status # << "Connected" >>
                      \/ w.state.connection_status = state.connection_status
           ELSE /\ w.state.client = Some(g)
                /\ w.state.connection_status = << "Connected" >>
                /\ \A k \in KeySet \ ConnectKeys : w.state.tasks[k] = state.tasks[k]
                /\ \A k \in ConnectKeys :
                       IF is_some(state.tasks[k]) THEN w.state.tasks[k] = state.tasks[k]
                       ELSE /\ is_some(w.state.tasks[k])
                            /\ w.state.tasks[k][1] \notin DOMAIN rt
                            /\ w.rt[w.state.tasks[k][1]].worker = "running"
                            /\ w.rt[w.state.tasks[k][1]].request.client = g
                /\ \A c \in DOMAIN rt : w.rt[c] = rt[c]
                /\ DOMAIN w.rt \ DOMAIN rt =
                       { w.state.tasks[k][1] : k \in { j \in ConnectKeys : is_none(state.tasks[j]) } }

\* C28 witness: the first connect has succeeded and its three fetches are
\* in flight, the only calls there are.
C28_Witness ==
    /\ state.client = Some(1)
    /\ state.status_message = Some(StatusSuccess(<< "Connected" >>))
    /\ \A k \in ConnectKeys : state.tasks[k] = Some(<< k, 1 >>)
    /\ DOMAIN rt = { << k, 1 >> : k \in ConnectKeys }

\* C29: along every sequence of connects and disconnects in which connect
\* is invoked only while the connection status is not Connected, a client
\* is held if and only if the connection status is Connected.
C29_ClientIffConnected ==
    is_some(state.client) <=> state.connection_status = << "Connected" >>

\* C29 witness: after a connect and a disconnect, a connect has failed at
\* the construction of the client: the status is Error and no client is
\* held.
C29_Witness ==
    /\ conns = 1
    /\ is_none(state.client)
    /\ state.connection_status = << "Error", "invalid api key" >>

\* The calls that exist in world w and not yet in the current state.
Spawned(w) == DOMAIN w.rt \ DOMAIN rt

\* C30: the only calls spawned during a drain pass are list_channels
\* re-fetches, and only after the success of a channel mutation: the drain
\* step of a failed outcome spawns nothing, nor does the drain step of the
\* success of any other key; a pass spawns at most one call, a
\* list_channels call, however many mutations complete in it, and none
\* when no mutation succeeds in it.
C30_OnlyRefetchSpawned ==
    /\ \A k \in KeySet :
           /\ Failed(k) => Spawned(poll_task(World, k)) = { }
           /\ (Succeeded(k) /\ k \notin MutKeys) => Spawned(poll_task(World, k)) = { }
           /\ (Succeeded(k) /\ k \in MutKeys) =>
                  \A c \in Spawned(poll_task(World, k)) : c[1] = "channels"
    /\ LET w1 == poll_tasks(World) IN
       /\ Cardinality(Spawned(w1)) <= 1
       /\ \A c \in Spawned(w1) :
              /\ c[1] = "channels"
              /\ w1.state.tasks["channels"] = Some(c)
              /\ \E k \in MutKeys : Succeeded(k)
       /\ \A c \in DOMAIN rt : c \in DOMAIN w1.rt

\* C30 witness: a close and a force close have both succeeded before one
\* pass, with a client held and the channels slot empty.
C30_Witness ==
    /\ Succeeded("close_channel")
    /\ Succeeded("force_close_channel")
    /\ is_none(state.tasks["channels"])
    /\ is_some(state.client)


\* ------------------------------------------------------------------ lists
MaxListCalls == 3

\* The keys whose responses the panels show as lists.
ListKeys == { "node_info", "balances", "channels", "payments" }

\* The Refresh button of the payments panel: it is drawn while the node is
\* connected and the payments slot is empty; it forgets the page token and
\* fetches.
RefreshPayments(limit) ==
    LET w == fetch_payments([ World EXCEPT !.state.payments_page_token = None ]) IN
    /\ state.connection_status = << "Connected" >>
    /\ is_none(state.tasks["payments"])
    /\ WithinCalls(w, limit)
    /\ state' = w.state
    /\ rt' = w.rt
    /\ repaint' = TRUE
    /\ UNCHANGED << substrate, signal, conns, focus, settings, disk >>

\* The Load More button of the payments panel: drawn beside Refresh while a
\* page token is stored.
LoadMorePayments(limit) ==
    LET w == fetch_payments(World) IN
    /\ state.connection_status = << "Connected" >>
    /\ is_none(state.tasks["payments"])
    /\ is_some(state.payments_page_token)
    /\ WithinCalls(w, limit)
    /\ state' = w.state
    /\ rt' = w.rt
    /\ repaint' = TRUE
    /\ UNCHANGED << substrate, signal, conns, focus, settings, disk >>

\* A run in which the user connects, disconnects, pages through the
\* payments and refreshes the channel list.
NextList ==
    \/ state.connection_status # << "Connected" >>
          /\ \E inp \in ConnectInputs : Connect(inp, 3 + MaxListCalls, MaxConn)
    \/ Ready /\ RefreshPayments(3 + MaxListCalls)
    \/ Ready /\ LoadMorePayments(3 + MaxListCalls)
    \/ Ready /\ UserTrigger("channels", 3 + MaxListCalls, ListKeys)
    \/ Ready /\ Disconnect
    \/ \E c \in DOMAIN rt : \E res \in Outcomes(c) :
           (Ready \/ res[1] = "Ok") /\ Complete(c, res)
    \/ Tick

SpecList == Init /\ [][NextList]_vars

\* C31: a list_payments call sends the page token stored at the moment its
\* trigger acquires the slot: in every step that fills the empty payments
\* slot, the request of the new call carries the token stored after the
\* step (the trigger does not write it; Refresh resets it before calling
\* the trigger).  In every drain pass that finds the payments slot
\* published: on success the stored token becomes the response's
\* next_page_token and the cached payments become the response; on failure
\* the stored token and the cached payments are unchanged.  A pass over an
\* unpublished or empty payments slot changes neither.
C31_PaymentsPaging ==
    [][ /\ (is_none(state.tasks["payments"]) /\ is_some(state'.tasks["payments"]))
            => LET c == state'.tasks["payments"][1] IN
               /\ c \notin DOMAIN rt
               /\ rt'[c].request.page_token = state'.payments_page_token
               /\ state'.payments = state.payments
        /\ (state' = update(World).w.state /\ rt' = update(World).w.rt)
            => IF Succeeded("payments")
               THEN /\ state'.payments_page_token = OutcomeOf("payments")[2].next_page_token
                    /\ state'.payments = Some(OutcomeOf("payments")[2])
                    /\ is_none(state'.tasks["payments"])
               ELSE /\ state'.payments_page_token = state.payments_page_token
                    /\ state'.payments = state.payments
      ]_vars

\* C31 witness: the second page is cached (the response of a call that
\* sent a page token), the first page was fetched before it, and a later
\* call has failed and waits in its slot.
C31_Witness ==
    /\ is_some(state.payments)
    /\ is_some(rt[state.payments[1].call].request.page_token)
    /\ Failed("payments")

\* The slots whose outcome waits to be drained.
Waiting == { k \in KeySet : Published(k) }

\* C32: draining a successful outcome of node_info, balances, channels or
\* payments leaves the status message unchanged: the expansion of
\* poll_task! for such a slot keeps it, and so does a whole drain pass in
\* which only such successes wait.  So an error shown before the pass is
\* still the status after it.
C32_SuccessKeepsStatus ==
    /\ \A k \in SilentKeys :
           Succeeded(k) => poll_task(World, k).state.status_message = state.status_message
    /\ (Waiting # { } /\ \A k \in Waiting : k \in SilentKeys /\ Succeeded(k))
           => /\ update(World).w.state.status_message = state.status_message
              /\ \A k \in Waiting : is_none(update(World).w.state.tasks[k])

\* C32 witness: the status shows the error of a failed list_payments call
\* (no other call of the run can have failed), and a later list_payments
\* call has succeeded and waits to be drained.
C32_Witness ==
    /\ Succeeded("payments")
    /\ state.status_message = Some(StatusError(<< "insufficient funds" >>))
    /\ \A c \in DOMAIN rt : c[1] = "payments" \/ c[2] = 1

\* ------------------------------------------------------------------ settings
\* The Load Config button (native): the file dialog returns the path of the
\* config file; load_config reads and parses it, or fails.
LoadConfig(ok) ==
    /\ substrate = "native"
    /\ IF ok
       THEN /\ settings' = Loaded(disk, Some("p"))
            /\ state' = [ state EXCEPT !.status_message =
                            Some(StatusSuccess(<< "Config loaded from ", "p" >>)) ]
       ELSE /\ settings' = settings
            /\ state' = [ state EXCEPT !.status_message =
                            Some(StatusError(<< "Failed to load config: ", "io" >>)) ]
    /\ repaint' = TRUE
    /\ UNCHANGED << rt, substrate, signal, conns, focus, disk >>

\* render_chain_source_editor: the combo box offers ChainSourceType::ALL,
\* and the text fields of the selected type are editable.
EditableFields(form) ==
    CASE form.source_type = "Bitcoind" ->
           { "btc_rpc_address", "btc_rpc_user", "btc_rpc_password" }
      [] form.source_type \in { "Electrum", "Esplora" } -> { "server_url" }
      [] OTHER -> { }

EditChainSource ==
    /\ substrate = "native"
    /\ \/ \E t \in { "Bitcoind", "Electrum", "Esplora" } :
             /\ t # settings.chain_source_form.source_type
             /\ settings' = [ settings EXCEPT !.chain_source_form.source_type = t ]
       \/ \E f \in EditableFields(settings.chain_source_form) : \E v \in Strings :
             /\ v # settings.chain_source_form[f]
             /\ settings' = [ settings EXCEPT !.chain_source_form[f] = v ]
    /\ repaint' = TRUE
    /\ UNCHANGED << state, rt, substrate, signal, conns, focus, disk >>

\* What Save and Save As do once the path is known: to_config, then
\* save_chain_source, which rewrites the file or fails.
SaveTo(ok) ==
    LET chain_source == to_config(settings.chain_source_form) IN
    IF ok
    THEN /\ disk' = save_chain_source(chain_source)
         /\ settings' = [ settings EXCEPT !.chain_source = chain_source,
                                          !.config_file_path = Some("p") ]
         /\ state' = [ state EXCEPT !.status_message =
                         Some(StatusSuccess(<< "Config saved to ", "p" >>)) ]
    ELSE /\ disk' = disk
         /\ settings' = settings
         /\ state' = [ state EXCEPT !.status_message =
                         Some(StatusError(<< "Failed to save: ", "io" >>)) ]

\* The Save button: it saves to the path of the loaded config, if any.
Save(ok) ==
    /\ substrate = "native"
    /\ IF is_some(settings.config_file_path)
       THEN SaveTo(ok)
       ELSE /\ state' = [ state EXCEPT !.status_message =
                            Some(StatusError(<< "No config file loaded. Use 'Save As...'" >>)) ]
            /\ UNCHANGED << settings, disk >>
    /\ repaint' = TRUE
    /\ UNCHANGED << rt, substrate, signal, conns, focus >>

\* The Save As button, the file dialog returning the path of the config.
SaveAs(ok) ==
    /\ substrate = "native"
    /\ SaveTo(ok)
    /\ repaint' = TRUE
    /\ UNCHANGED << rt, substrate, signal, conns, focus >>

\* A run in which the user operates the chain source settings.
NextSettings ==
    \/ \E ok \in BOOLEAN : LoadConfig(ok)
    \/ EditChainSource
    \/ \E ok \in BOOLEAN : Save(ok)
    \/ \E ok \in BOOLEAN : SaveAs(ok)
    \/ Tick

InitSettings == InitOver(ConfigFiles)

SpecSettings == InitSettings /\ [][NextSettings]_vars

\* The form is as from_config left it: nothing was edited since the chain
\* source was loaded.
Unedited == settings.chain_source_form = from_config(settings.chain_source)

\* A step in which Save or Save As writes the file.
Saved == (is_some(settings.config_file_path) /\ Save(TRUE)) \/ SaveAs(TRUE)

\* C33: from_config followed by to_config gives back the chain source, for
\* every chain source configuration, and the chain source of the state is
\* always one of them.  So whenever the form is as from_config left it, to_config
\* of the form is the loaded chain source, and a save of it that succeeds
\* keeps the chain source of the state and leaves a file whose chain source
\* is the loaded one.
C33_RoundTrip ==
    /\ [](/\ \A c \in ChainSourceConfigs : to_config(from_config(c)) = c
           /\ settings.chain_source \in ChainSourceConfigs
           /\ to_config(from_config(settings.chain_source)) = settings.chain_source
           /\ Unedited => to_config(settings.chain_source_form) = settings.chain_source)
    /\ [][ (Unedited /\ Saved)
           => /\ settings'.chain_source = settings.chain_source
              /\ chain_source_of(disk') = settings.chain_source
              /\ settings'.chain_source_form = settings.chain_source_form
       ]_vars

\* C33 witness: the chain source is Bitcoind with a password, the form is
\* as from_config leaves it for that chain source, and a save has written
\* the file, which holds that chain source and nothing else.
C33_Witness ==
    /\ settings.chain_source[1] = "Bitcoind"
    /\ settings.chain_source[4] # ""
    /\ Unedited
    /\ state.status_message = Some(StatusSuccess(<< "Config saved to ", "p" >>))
    /\ disk = save_chain_source(settings.chain_source)

=============================================================================
